---------------------------- MODULE Spec2Model ----------------------------
(***************************************************************************)
(* Telemetry ingestion and alarm evaluation of the energy monitoring       *)
(* backend: devices/services.py (threshold evaluation),                    *)
(* devices/mqtt_service.py (broker connection pool, topic resolution,      *)
(* payload normalisation), device_data/views.py (HTTP ingest) and          *)
(* alerts/views.py (alarm acknowledgment).                                 *)
(*                                                                         *)
(* Numbers are kept in tenths: 180 is written 1800 and 230.5 is 2305.      *)
(* Strings (topics, hardware addresses, payload strings) are sequences of  *)
(* one-character strings.                                                  *)
(***************************************************************************)
EXTENDS Integers, Sequences, FiniteSets, TLC

VARIABLES
    devices,            \* Device rows: id -> configuration (devices/models.py Device)
    thresholds,         \* Threshold rows, ordered by (device, parameter_key)
    alarms,             \* Alarm rows in creation order
    records,            \* DeviceData rows in creation order
    last_data_received, \* Device.last_data_received: index of the DeviceData row, 0 = null
    created,            \* list returned by the last check_thresholds_and_create_alarms
    lastCall,           \* the last operation that completed, with its arguments
    clients,            \* MQTTConnectionManager.clients: broker key -> client
    subscribed_topics,  \* MQTTConnectionManager.subscribed_topics: broker key -> topics
    device_topic_map,   \* MQTTConnectionManager.device_topic_map: topic -> device id
    live,               \* client objects that are connected with a running loop
    brokerCalls,        \* subscribe/unsubscribe calls issued on client objects
    pc,                 \* per thread: position inside the operation it runs
    frame,              \* per thread: locals of the operation it runs
    mqtt_thread,        \* DevicesConfig._mqtt_thread: 0 = None, else the n-th Thread made
    mqtt_thread_lock,   \* DevicesConfig._mqtt_thread_lock: 0 = free, else the holding thread
    threads             \* the mqtt-subscriber Thread objects started: n -> position
                        \* of its run_subscriber

dbVars   == <<devices, thresholds, alarms, records, last_data_received>>
poolVars == <<clients, subscribed_topics, device_topic_map, live, brokerCalls>>
thrVars  == <<pc, frame>>
appVars  == <<mqtt_thread, mqtt_thread_lock, threads>>
vars     == <<devices, thresholds, alarms, records, last_data_received, created,
              lastCall, clients, subscribed_topics, device_topic_map, live,
              brokerCalls, pc, frame, mqtt_thread, mqtt_thread_lock, threads>>

-----------------------------------------------------------------------------
(* Bounds of the model *)

NumDevices == 2
MaxAlarms  == 3
MaxRecords == 2
NumThreads == 2

DeviceIds == 1..NumDevices
Threads   == 1..NumThreads

-----------------------------------------------------------------------------
(* Strings as sequences of characters *)

Digits == {"0", "1", "2", "3", "4", "5", "6", "7", "8", "9"}

DigitVal(c) ==
    CASE c = "0" -> 0 [] c = "1" -> 1 [] c = "2" -> 2 [] c = "3" -> 3
      [] c = "4" -> 4 [] c = "5" -> 5 [] c = "6" -> 6 [] c = "7" -> 7
      [] c = "8" -> 8 [] c = "9" -> 9

\* str.endswith / str.startswith
EndsWith(s, suf) ==
    /\ Len(suf) <= Len(s)
    /\ SubSeq(s, Len(s) - Len(suf) + 1, Len(s)) = suf

StartsWith(s, pre) ==
    /\ Len(pre) <= Len(s)
    /\ SubSeq(s, 1, Len(pre)) = pre

\* s.replace(c, '', 1): s without the first occurrence of character c
RemoveFirst(s, c) ==
    IF \E i \in 1..Len(s) : s[i] = c
    THEN LET i == CHOOSE j \in 1..Len(s) :
                     s[j] = c /\ \A k \in 1..(j - 1) : s[k] # c
         IN  SubSeq(s, 1, i - 1) \o SubSeq(s, i + 1, Len(s))
    ELSE s

\* str.isdigit (on the ASCII characters of the model): non-empty, all digits
IsDigit(s) == Len(s) > 0 /\ \A i \in 1..Len(s) : s[i] \in Digits

\* value of a string of digits
RECURSIVE DigitsVal(_)
DigitsVal(s) ==
    IF Len(s) = 0 THEN 0
    ELSE 10 * DigitsVal(SubSeq(s, 1, Len(s) - 1)) + DigitVal(s[Len(s)])

\* float(s) succeeds: optional leading minus, digits with at most one point,
\* at least one digit (Python's float grammar over the characters of the model)
FloatParses(s) ==
    LET body == IF Len(s) > 0 /\ s[1] = "-" THEN SubSeq(s, 2, Len(s)) ELSE s
    IN  IsDigit(RemoveFirst(body, "."))

\* float(s) in tenths; the strings of the model carry at most one digit after
\* the point
FloatOf(s) ==
    LET neg  == Len(s) > 0 /\ s[1] = "-"
        body == IF neg THEN SubSeq(s, 2, Len(s)) ELSE s
        dot  == IF \E i \in 1..Len(body) : body[i] = "."
                THEN CHOOSE i \in 1..Len(body) : body[i] = "."
                ELSE Len(body) + 1
        ip   == DigitsVal(SubSeq(body, 1, dot - 1))
        fr   == SubSeq(body, dot + 1, Len(body))
        fp   == IF Len(fr) = 0 THEN 0 ELSE DigitVal(fr[1])
        mag  == 10 * ip + fp
    IN  IF neg THEN 0 - mag ELSE mag

-----------------------------------------------------------------------------
(* JSON values: t is the Python type after json.loads *)

JNum(n)  == [t |-> "num",  n |-> n, s |-> <<>>]
JStr(s)  == [t |-> "str",  n |-> 0, s |-> s]
JBool(b) == [t |-> "bool", n |-> IF b THEN 10 ELSE 0, s |-> <<>>]
JNull    == [t |-> "null", n |-> 0, s |-> <<>>]
JList    == [t |-> "list", n |-> 0, s |-> <<>>]

\* isinstance(v, (int, float)): bool is a subclass of int
IsIntOrFloat(v) == v.t \in {"num", "bool"}

-----------------------------------------------------------------------------
(* Threshold evaluation: devices/services.py *)

\* the duplicate check left out
UnackedAlarmExists_never(al, d, key) == FALSE

\* the duplicate check without its acknowledged=False filter
UnackedAlarmExists_anyRow(al, d, key) ==
    \E i \in 1..Len(al) : al[i].device = d /\ al[i].parameter_key = key

\* Alarm.objects.filter(device=device, parameter_key=key, acknowledged=False).exists()
UnackedAlarmExists(al, d, key) ==
    \E i \in 1..Len(al) :
        /\ al[i].device = d
        /\ al[i].parameter_key = key
        /\ ~al[i].acknowledged

\* Alarm.objects.create(...): a new row, acknowledged defaults to False
NewAlarm(d, key, value, limit, type) ==
    [device |-> d, parameter_key |-> key, value |-> value,
     threshold |-> limit, type |-> type, acknowledged |-> FALSE]

\* value = parameters.get(key); float(value) succeeds
HasFloat(parameters, key) ==
    /\ key \in DOMAIN parameters
    /\ \/ IsIntOrFloat(parameters[key])
       \/ parameters[key].t = "str" /\ FloatParses(parameters[key].s)

\* float(parameters.get(key)), in tenths
ParamFloat(parameters, key) ==
    IF parameters[key].t = "str" THEN FloatOf(parameters[key].s)
    ELSE parameters[key].n

\* th.min is not None and value < th.min  (a limit is {} for None, {m} for m)
BreachesMin(th, value) == \E m \in th.min : value < m

\* th.max is not None and value > th.max
BreachesMax(th, value) == \E m \in th.max : value > m

\* The min branch of one loop iteration: rows to append
MinBranch(al, th, d, value) ==
    IF BreachesMin(th, value) /\ ~UnackedAlarmExists(al, d, th.parameter_key)
    THEN <<NewAlarm(d, th.parameter_key, value,
                    CHOOSE m \in th.min : TRUE, "min")>>
    ELSE <<>>

\* The max branch of the same iteration, run on the table the min branch left
MaxBranch(al, th, d, value) ==
    IF BreachesMax(th, value) /\ ~UnackedAlarmExists(al, d, th.parameter_key)
    THEN <<NewAlarm(d, th.parameter_key, value,
                    CHOOSE m \in th.max : TRUE, "max")>>
    ELSE <<>>

\* the max branch run on the table as it was before the min branch
CheckOneThreshold_staleTable(al, th, d, parameters) ==
    IF ~HasFloat(parameters, th.parameter_key) THEN <<>>
    ELSE LET value == ParamFloat(parameters, th.parameter_key)
         IN  MinBranch(al, th, d, value) \o MaxBranch(al, th, d, value)

\* One iteration of "for th in thresholds": rows it creates
CheckOneThreshold(al, th, d, parameters) ==
    IF ~HasFloat(parameters, th.parameter_key) THEN <<>>
    ELSE LET value == ParamFloat(parameters, th.parameter_key)
             a1    == MinBranch(al, th, d, value)
             a2    == MaxBranch(al \o a1, th, d, value)
         IN  a1 \o a2

\* Threshold.objects.filter(device=device): the device's own rows, in table order
ThresholdsOf(ths, d) == SelectSeq(ths, LAMBDA th : th.device = d)

RECURSIVE CheckLoop(_, _, _, _, _)
CheckLoop(al, ths, i, d, parameters) ==
    IF i > Len(ths) THEN <<>>
    ELSE LET new == CheckOneThreshold(al, ths[i], d, parameters)
         IN  new \o CheckLoop(al \o new, ths, i + 1, d, parameters)

\* check_thresholds_and_create_alarms(device, parameters): the list it returns;
\* every row of the list has been appended to the Alarm table
check_thresholds_and_create_alarms(al, ths, d, parameters) ==
    IF DOMAIN parameters = {} THEN <<>>
    ELSE CheckLoop(al, ThresholdsOf(ths, d), 1, d, parameters)

-----------------------------------------------------------------------------
(* Topic resolution and payload normalisation: devices/mqtt_service.py *)

\* Device.objects.filter(is_active=True)
ActiveDevices(devs) == {d \in DOMAIN devs : devs[d].is_active}

\* device_topic_map.get(topic), then Device.objects.filter(id=device_id,
\* is_active=True).first(); 0 stands for None
LookupTopicMap(topic, map, devs) ==
    IF /\ topic \in DOMAIN map
       /\ map[topic] \in DOMAIN devs
       /\ devs[map[topic]].is_active
    THEN map[topic] ELSE 0

\* pattern.endswith('+') and topic.startswith(pattern[:-1])
WildcardMatch(pattern, topic) ==
    /\ EndsWith(pattern, <<"+">>)
    /\ StartsWith(topic, SubSeq(pattern, 1, Len(pattern) - 1))

\* the if / elif / elif chain run for one device d of the loop
PatternMatch(d, topic, devs) ==
    \/ devs[d].mqtt_topic_pattern = topic
    \/ WildcardMatch(devs[d].mqtt_topic_pattern, topic)
    \/ EndsWith(topic, devs[d].hardware_address)

\* Device.objects.filter(is_active=True, mqtt_topic_pattern__isnull=False)
\*     .exclude(mqtt_topic_pattern='')
DevicesWithMqtt(devs) ==
    {d \in ActiveDevices(devs) : devs[d].mqtt_topic_pattern # <<>>}

\* "for d in devices_with_mqtt: ... break": the first device, in the model's
\* ordering of Device rows (Meta.ordering -created_at: the newest row, which
\* has the highest id, first), for which one branch of the chain matches
MatchByPattern(topic, devs) ==
    LET hits == {d \in DevicesWithMqtt(devs) : PatternMatch(d, topic, devs)}
    IN  IF hits = {} THEN 0
        ELSE CHOOSE d \in hits : \A e \in hits : e <= d

\* the fallback taking the first active device whenever there is one
SingleActiveFallback_anyActive(devs) ==
    IF ActiveDevices(devs) # {}
    THEN CHOOSE d \in ActiveDevices(devs) : \A e \in ActiveDevices(devs) : e <= d
    ELSE 0

\* "if len(active_devices) == 1: device = active_devices[0]"
SingleActiveFallback(devs) ==
    IF Cardinality(ActiveDevices(devs)) = 1
    THEN CHOOSE d \in ActiveDevices(devs) : TRUE
    ELSE 0

\* the device _handle_message binds the topic to; 0 when it finds none
ResolveDevice(topic, map, devs) ==
    LET byMap == LookupTopicMap(topic, map, devs)
    IN  IF byMap # 0 THEN byMap
        ELSE LET byPattern == MatchByPattern(topic, devs)
             IN  IF byPattern # 0 THEN byPattern
                 ELSE SingleActiveFallback(devs)

\* v.replace('.', '', 1).replace('-', '', 1).isdigit()
LooksNumeric(s) == IsDigit(RemoveFirst(RemoveFirst(s, "."), "-"))

\* a value the normalisation loop keeps
Kept(v) ==
    \/ IsIntOrFloat(v)
    \/ v.t = "str" /\ LooksNumeric(v.s) /\ FloatParses(v.s)

\* "Normalize to dict of numbers": the parameters dict built from data
Normalize(data) ==
    [k \in {x \in DOMAIN data : Kept(data[x])} |->
        IF IsIntOrFloat(data[k]) THEN data[k] ELSE JNum(FloatOf(data[k].s))]

\* A payload: kind is "object" (a JSON object, data its items), "nonobject"
\* (other JSON) or "invalid" (json.loads raises)
Payload(kind, data) == [kind |-> kind, data |-> data]

\* An MQTT message: msg.topic and msg.payload
Msg(topic, payload) == [topic |-> topic, payload |-> payload]

\* DeviceData.objects.create(device=device, parameters=parameters)
DataRow(d, parameters) == [device |-> d, parameters |-> parameters]

-----------------------------------------------------------------------------
(* Inputs of the model *)

Keys == {"v", "a"}

EmptyMap == [k \in {} |-> JNull]

\* {"k": value}
One(k, value) == [x \in {k} |-> value]

\* the 5-digit hardware address of device d: 46521, 46522, ...
HwOf(d) == <<"4", "6", "5", "2", CHOOSE c \in Digits : DigitVal(c) = d>>

\* Threshold rows: min = 200 and/or max = 250 on "v"; a row whose min exceeds
\* its max is what a PATCH of one bound leaves behind
Th(d, key, min, max) == [device |-> d, parameter_key |-> key, min |-> min, max |-> max]

ThresholdTables ==
    { <<Th(1, "v", {2000}, {})>>,
      <<Th(1, "v", {2000}, {2500}), Th(2, "v", {}, {2500})>>,
      <<Th(1, "a", {}, {50}), Th(1, "v", {2000}, {})>>,
      <<Th(1, "v", {2500}, {2000})>> }

\* Parameter maps handed to the evaluator
ParamMaps ==
    { One("v", JNum(1800)), One("v", JNum(2000)), One("v", JNum(2300)),
      One("v", JNum(2600)), One("a", JNum(52)),
      [k \in {"v", "a"} |-> IF k = "v" THEN JNum(1800) ELSE JNum(52)] }

\* Topics and topic patterns
TopicEM46521 == <<"E", "M", "/", "4", "6", "5", "2", "1">>
TopicEM9     == <<"E", "M", "/", "9">>
TopicX46522  == <<"X", "/", "4", "6", "5", "2", "2">>
PatternEMAny == <<"E", "M", "/", "+">>

\* Inbound topics, and the topic patterns a device may be configured with
\* (<<>> is an unset pattern)
Topics         == {TopicEM46521, TopicEM9, TopicX46522}
PatternChoices == {<<>>, TopicEM46521, PatternEMAny}

NoCall == [op |-> "none", device |-> 0, parameters |-> EmptyMap, arg |-> 0]

Call(op, d, parameters, arg) ==
    [op |-> op, device |-> d, parameters |-> parameters, arg |-> arg]

\* A Device row
Device(active, hw, pattern, host, port) ==
    [is_active |-> active, hardware_address |-> hw, mqtt_topic_pattern |-> pattern,
     mqtt_broker_host |-> host, mqtt_broker_port |-> port]

PlainDevices == [d \in DeviceIds |-> Device(TRUE, HwOf(d), <<>>, "", 1883)]

\* The n-th mqtt.Client object built by this process, made for broker bk
Client(n, bk) == [n |-> n, key |-> bk]

EmptyPool ==
    /\ clients = <<>>
    /\ subscribed_topics = <<>>
    /\ device_topic_map = <<>>
    /\ live = {}
    /\ brokerCalls = <<>>

\* locals of a running call: its arguments, a loop index, the rows it created
Frame(d, parameters, i, acc) ==
    [device |-> d, parameters |-> parameters, i |-> i, acc |-> acc]

NoFrame == Frame(0, EmptyMap, 0, <<>>)

NoThreads ==
    /\ pc = [t \in Threads |-> "idle"]
    /\ frame = [t \in Threads |-> NoFrame]

\* DevicesConfig as the class statement leaves it, no subscriber thread made
NoSubscriber ==
    /\ mqtt_thread = 0
    /\ mqtt_thread_lock = 0
    /\ threads = <<>>

-----------------------------------------------------------------------------
(* Sequential alarm evaluation and acknowledgment *)

InitAlarm ==
    /\ devices = PlainDevices
    /\ thresholds \in ThresholdTables
    /\ alarms = <<>>
    /\ records = <<>>
    /\ last_data_received = [d \in DeviceIds |-> 0]
    /\ created = <<>>
    /\ lastCall = NoCall
    /\ EmptyPool
    /\ NoThreads
    /\ NoSubscriber

\* evaluateThresholds(device, parameters): one whole call of
\* check_thresholds_and_create_alarms
Evaluate(d, parameters) ==
    /\ UNCHANGED appVars
    /\ LET new == check_thresholds_and_create_alarms(alarms, thresholds, d, parameters)
       IN  /\ Len(alarms) + Len(new) <= MaxAlarms
           /\ alarms' = alarms \o new
           /\ created' = new
           /\ lastCall' = Call("evaluate", d, parameters, 0)
           /\ UNCHANGED <<devices, thresholds, records, last_data_received>>
           /\ UNCHANGED <<poolVars, thrVars>>

\* AlarmDetailView.patch on alarm row i by an admin; ack is
\* request.data.get('acknowledged') is True
Acknowledge(i, ack) ==
    /\ UNCHANGED appVars
    /\ i \in 1..Len(alarms)
    /\ alarms' = IF ack THEN [alarms EXCEPT ![i].acknowledged = TRUE] ELSE alarms
    /\ lastCall' = Call("patch", alarms[i].device, EmptyMap, i)
    /\ UNCHANGED <<devices, thresholds, records, last_data_received, created>>
    /\ UNCHANGED <<poolVars, thrVars>>

NextAlarm ==
    \/ \E d \in DeviceIds, parameters \in ParamMaps : Evaluate(d, parameters)
    \/ \E i \in 1..MaxAlarms, ack \in BOOLEAN : Acknowledge(i, ack)

SpecAlarm == InitAlarm /\ [][NextAlarm]_vars

-----------------------------------------------------------------------------
(* Properties of sequential evaluation *)

\* rows of table al for (d, key) that are not acknowledged
OpenRows(al, d, key) ==
    {i \in 1..Len(al) : al[i].device = d /\ al[i].parameter_key = key
                         /\ al[i].acknowledged = FALSE}

\* rows the step has added for (d, key)
AddedRows(d, key) ==
    {i \in (Len(alarms) + 1)..Len(alarms') :
        alarms'[i].device = d /\ alarms'[i].parameter_key = key}

\* the reading of key in a parameter map of numbers
Reading(parameters, key) == parameters[key].n

\* the step is an evaluation for device d
EvaluatedFor(d) == lastCall'.op = "evaluate" /\ lastCall'.device = d

\* C2: sequentially, a reading below min on (device, k) with no unacknowledged
\* alarm creates exactly one alarm, of type min, with the reading as value and
\* min as threshold; while (device, k) has an unacknowledged alarm a breaching
\* reading, below min or above max, creates no alarm for (device, k).
C2_MinAlarmOnceThenSuppressed ==
    [][\A d \in DeviceIds : \A n \in 1..Len(thresholds) :
         LET th == thresholds[n]
             k  == th.parameter_key
             p  == lastCall'.parameters
         IN  (EvaluatedFor(d) /\ th.device = d /\ k \in DOMAIN p) =>
               /\ (th.min # {} /\ OpenRows(alarms, d, k) = {}
                     /\ \A m \in th.min : Reading(p, k) < m)
                  => \E i \in AddedRows(d, k) :
                        /\ AddedRows(d, k) = {i}
                        /\ alarms'[i].type = "min"
                        /\ alarms'[i].value = Reading(p, k)
                        /\ alarms'[i].threshold \in th.min
                        /\ alarms'[i].acknowledged = FALSE
               /\ OpenRows(alarms, d, k) # {} => AddedRows(d, k) = {}
      ]_vars

\* a second breaching reading has been evaluated while the min alarm of the
\* first is unacknowledged, and has created nothing
C2_Witness ==
    /\ lastCall.op = "evaluate"
    /\ created = <<>>
    /\ \E n \in 1..Len(thresholds) :
         LET th == thresholds[n]
             k  == th.parameter_key
         IN  /\ th.device = lastCall.device
             /\ k \in DOMAIN lastCall.parameters
             /\ \/ \E m \in th.min : Reading(lastCall.parameters, k) < m
                \/ \E m \in th.max : Reading(lastCall.parameters, k) > m
             /\ \E i \in OpenRows(alarms, th.device, k) :
                  /\ OpenRows(alarms, th.device, k) = {i}
                  /\ alarms[i].type = "min"

\* C3: once every alarm of (device, k) is acknowledged, the next evaluated
\* reading that breaches the threshold on k creates exactly one new
\* unacknowledged alarm for (device, k).
C3_NewAlarmAfterAcknowledgment ==
    [][\A d \in DeviceIds : \A n \in 1..Len(thresholds) :
         LET th == thresholds[n]
             k  == th.parameter_key
             p  == lastCall'.parameters
         IN  (/\ EvaluatedFor(d) /\ th.device = d /\ k \in DOMAIN p
              /\ \E i \in 1..Len(alarms) :
                     alarms[i].device = d /\ alarms[i].parameter_key = k
              /\ OpenRows(alarms, d, k) = {}
              /\ \/ \E m \in th.min : Reading(p, k) < m
                 \/ \E m \in th.max : Reading(p, k) > m)
             => /\ Cardinality(AddedRows(d, k)) = 1
                /\ Cardinality(OpenRows(alarms', d, k)) = 1
      ]_vars

\* an alarm of (device, k) was acknowledged and a later breaching reading has
\* created a new unacknowledged one
C3_Witness ==
    /\ lastCall.op = "evaluate"
    /\ Len(created) = 1
    /\ \E i, j \in 1..Len(alarms) :
         /\ i < j
         /\ alarms[i].device = alarms[j].device
         /\ alarms[i].parameter_key = alarms[j].parameter_key
         /\ alarms[i].acknowledged
         /\ ~alarms[j].acknowledged
         /\ created[1] = alarms[j]

-----------------------------------------------------------------------------
(* Concurrent alarm evaluation: each thread (a broker's receive loop, an    *)
(* HTTP request) runs check_thresholds_and_create_alarms; every database    *)
(* query and insert is one step.                                            *)

\* Readings of the concurrent callers
ConcParamMaps == { One("v", JNum(1800)), One("v", JNum(2600)) }

ConcThresholds == <<Th(1, "v", {2000}, {2500}), Th(2, "v", {2000}, {})>>

InitAlarmConc ==
    /\ devices = PlainDevices
    /\ thresholds = ConcThresholds
    /\ alarms = <<>>
    /\ records = <<>>
    /\ last_data_received = [d \in DeviceIds |-> 0]
    /\ created = <<>>
    /\ lastCall = NoCall
    /\ EmptyPool
    /\ NoThreads
    /\ NoSubscriber

\* the threshold row the thread's loop is at
CurTh(t) == ThresholdsOf(thresholds, frame[t].device)[frame[t].i]

CurValue(t) == ParamFloat(frame[t].parameters, CurTh(t).parameter_key)

\* where the loop goes after iteration i: the next row, or the return
AfterIteration(t) ==
    IF frame[t].i < Len(ThresholdsOf(thresholds, frame[t].device))
    THEN "min_check" ELSE "return"

\* the call starts: "if not parameters" and the query of the device's thresholds
CheckBegin(t, d, parameters) ==
    /\ UNCHANGED appVars
    /\ pc[t] = "idle"
    /\ frame' = [frame EXCEPT ![t] = Frame(d, parameters, 1, <<>>)]
    /\ pc' = [pc EXCEPT ![t] =
                IF DOMAIN parameters = {} \/ Len(ThresholdsOf(thresholds, d)) = 0
                THEN "return" ELSE "min_check"]
    /\ UNCHANGED <<dbVars, created, lastCall, poolVars>>

\* value lookup, the min comparison and the exists() query of the min branch
CheckMin(t) ==
    /\ UNCHANGED appVars
    /\ pc[t] = "min_check"
    /\ IF ~HasFloat(frame[t].parameters, CurTh(t).parameter_key)
       THEN /\ pc' = [pc EXCEPT ![t] = AfterIteration(t)]
            /\ frame' = [frame EXCEPT ![t].i = @ + 1]
       ELSE /\ pc' = [pc EXCEPT ![t] =
                        IF /\ BreachesMin(CurTh(t), CurValue(t))
                           /\ ~UnackedAlarmExists(alarms, frame[t].device,
                                                  CurTh(t).parameter_key)
                        THEN "min_create" ELSE "max_check"]
            /\ UNCHANGED frame
    /\ UNCHANGED <<dbVars, created, lastCall, poolVars>>

\* Alarm.objects.create of the min branch
CreateMin(t) ==
    /\ UNCHANGED appVars
    /\ pc[t] = "min_create"
    /\ Len(alarms) < MaxAlarms
    /\ LET a == NewAlarm(frame[t].device, CurTh(t).parameter_key, CurValue(t),
                         CHOOSE m \in CurTh(t).min : TRUE, "min")
       IN  /\ alarms' = Append(alarms, a)
           /\ frame' = [frame EXCEPT ![t].acc = Append(@, a)]
    /\ pc' = [pc EXCEPT ![t] = "max_check"]
    /\ UNCHANGED <<devices, thresholds, records, last_data_received>>
    /\ UNCHANGED <<created, lastCall, poolVars>>

\* the max comparison and the exists() query of the max branch
CheckMax(t) ==
    /\ UNCHANGED appVars
    /\ pc[t] = "max_check"
    /\ IF /\ BreachesMax(CurTh(t), CurValue(t))
          /\ ~UnackedAlarmExists(alarms, frame[t].device, CurTh(t).parameter_key)
       THEN /\ pc' = [pc EXCEPT ![t] = "max_create"]
            /\ UNCHANGED frame
       ELSE /\ pc' = [pc EXCEPT ![t] = AfterIteration(t)]
            /\ frame' = [frame EXCEPT ![t].i = @ + 1]
    /\ UNCHANGED <<dbVars, created, lastCall, poolVars>>

\* Alarm.objects.create of the max branch
CreateMax(t) ==
    /\ UNCHANGED appVars
    /\ pc[t] = "max_create"
    /\ Len(alarms) < MaxAlarms
    /\ LET a == NewAlarm(frame[t].device, CurTh(t).parameter_key, CurValue(t),
                         CHOOSE m \in CurTh(t).max : TRUE, "max")
       IN  /\ alarms' = Append(alarms, a)
           /\ frame' = [frame EXCEPT ![t].acc = Append(@, a), ![t].i = @ + 1]
    /\ pc' = [pc EXCEPT ![t] = AfterIteration(t)]
    /\ UNCHANGED <<devices, thresholds, records, last_data_received>>
    /\ UNCHANGED <<created, lastCall, poolVars>>

\* return created
CheckReturn(t) ==
    /\ UNCHANGED appVars
    /\ pc[t] = "return"
    /\ created' = frame[t].acc
    /\ pc' = [pc EXCEPT ![t] = "idle"]
    /\ frame' = [frame EXCEPT ![t] = NoFrame]
    /\ UNCHANGED <<dbVars, lastCall, poolVars>>

\* AlarmDetailView.patch, concurrent with the evaluations
AcknowledgeConc(i, ack) ==
    /\ UNCHANGED appVars
    /\ i \in 1..Len(alarms)
    /\ alarms' = IF ack THEN [alarms EXCEPT ![i].acknowledged = TRUE] ELSE alarms
    /\ UNCHANGED <<devices, thresholds, records, last_data_received, created>>
    /\ UNCHANGED <<lastCall, poolVars, thrVars>>

NextAlarmConc ==
    \/ \E t \in Threads, d \in DeviceIds, parameters \in ConcParamMaps :
          CheckBegin(t, d, parameters)
    \/ \E t \in Threads : CheckMin(t)
    \/ \E t \in Threads : CreateMin(t)
    \/ \E t \in Threads : CheckMax(t)
    \/ \E t \in Threads : CreateMax(t)
    \/ \E t \in Threads : CheckReturn(t)
    \/ \E i \in 1..MaxAlarms, ack \in BOOLEAN : AcknowledgeConc(i, ack)

SpecAlarmConc == InitAlarmConc /\ [][NextAlarmConc]_vars

\* C1: at most one unacknowledged Alarm per (device, parameter_key), whatever
\* the breach type, under any interleaving of evaluations and acknowledgments.
C1_AtMostOneUnackedAlarm ==
    \A d \in DeviceIds : \A k \in Keys : Cardinality(OpenRows(alarms, d, k)) <= 1

-----------------------------------------------------------------------------
(* The receive loop of one broker connection: _handle_message              *)

\* a broker key, f"{host}:{port}"
BrokerKey(host, port) == <<host, port>>

\* the handler skipping a payload equal to the device's latest stored row
MqttReceive_dropsRepeat(t, topic, payload) ==
    /\ UNCHANGED appVars
    /\ LET d == ResolveDevice(topic, device_topic_map, devices)
           parameters == IF payload.kind = "object" THEN Normalize(payload.data)
                         ELSE EmptyMap
           stores == /\ d # 0 /\ payload.kind = "object" /\ DOMAIN parameters # {}
                     /\ ~ \E i \in 1..Len(records) : records[i] = DataRow(d, parameters)
       IN  /\ pc[t] = "idle"
           /\ lastCall' = Call("message", d, parameters, Msg(topic, payload))
           /\ IF stores
              THEN /\ Len(records) < MaxRecords
                   /\ records' = Append(records, DataRow(d, parameters))
                   /\ last_data_received' =
                          [last_data_received EXCEPT ![d] = Len(records) + 1]
                   /\ pc' = [pc EXCEPT ![t] = "mqtt_check"]
                   /\ frame' = [frame EXCEPT ![t] = Frame(d, parameters, 0, <<>>)]
              ELSE UNCHANGED <<records, last_data_received, pc, frame>>
           /\ UNCHANGED <<devices, thresholds, alarms, created, poolVars>>

\* _handle_message up to and including the DeviceData row and
\* last_data_received: resolve the topic, parse and normalise the payload,
\* store. The threshold check of the same message is the loop's next step.
MqttReceive(t, topic, payload) ==
    /\ UNCHANGED appVars
    /\ LET d == ResolveDevice(topic, device_topic_map, devices)
           parameters == IF payload.kind = "object" THEN Normalize(payload.data)
                         ELSE EmptyMap
           stores == d # 0 /\ payload.kind = "object" /\ DOMAIN parameters # {}
       IN  /\ pc[t] = "idle"
           /\ lastCall' = Call("message", d, parameters, Msg(topic, payload))
           /\ IF stores
              THEN /\ Len(records) < MaxRecords
                   /\ records' = Append(records, DataRow(d, parameters))
                   /\ last_data_received' =
                          [last_data_received EXCEPT ![d] = Len(records) + 1]
                   /\ pc' = [pc EXCEPT ![t] = "mqtt_check"]
                   /\ frame' = [frame EXCEPT ![t] = Frame(d, parameters, 0, <<>>)]
              ELSE UNCHANGED <<records, last_data_received, pc, frame>>
           /\ UNCHANGED <<devices, thresholds, alarms, created, poolVars>>

\* the rest of _handle_message: check_thresholds_and_create_alarms(device,
\* parameters), run by the loop without interleaving of its own messages
MqttCheck(t) ==
    /\ UNCHANGED appVars
    /\ LET new == check_thresholds_and_create_alarms(alarms, thresholds,
                                                     frame[t].device, frame[t].parameters)
       IN  /\ pc[t] = "mqtt_check"
           /\ Len(alarms) + Len(new) <= MaxAlarms
           /\ alarms' = alarms \o new
           /\ created' = new
           /\ pc' = [pc EXCEPT ![t] = "idle"]
           /\ frame' = [frame EXCEPT ![t] = NoFrame]
           /\ UNCHANGED <<devices, thresholds, records, last_data_received>>
           /\ UNCHANGED <<lastCall, poolVars>>

-----------------------------------------------------------------------------
(* Topic resolution over device configurations *)

Broker1 == BrokerKey("h1", 1883)

ResolveThresholds == <<Th(1, "v", {2000}, {}), Th(2, "v", {2000}, {})>>

ResolvePayloads ==
    { Payload("object", One("v", JNum(1800))), Payload("invalid", EmptyMap) }

\* Devices with any combination of active flag and topic pattern; the topic
\* map is empty or holds an entry left by an earlier subscription
InitResolve ==
    /\ devices \in
         { [d \in DeviceIds |-> Device(c[d].a, HwOf(d), c[d].p, "h1", 1883)] :
             c \in [DeviceIds -> [a : BOOLEAN, p : PatternChoices]] }
    /\ device_topic_map \in {<<>>} \cup {One(TopicEM46521, d) : d \in DeviceIds}
    /\ clients = One(Broker1, Client(1, Broker1))
    /\ subscribed_topics = One(Broker1, DOMAIN device_topic_map)
    /\ live = {Client(1, Broker1)}
    /\ brokerCalls = <<>>
    /\ thresholds = ResolveThresholds
    /\ alarms = <<>>
    /\ records = <<>>
    /\ last_data_received = [d \in DeviceIds |-> 0]
    /\ created = <<>>
    /\ lastCall = NoCall
    /\ NoThreads
    /\ NoSubscriber

NextResolve ==
    \/ \E topic \in Topics, payload \in ResolvePayloads : MqttReceive(1, topic, payload)
    \/ MqttCheck(1)

SpecResolve == InitResolve /\ [][NextResolve]_vars

\* the step handles a message on the receive loop
ReceivesMessage == pc[1] = "idle" /\ lastCall'.op = "message"

\* C5: a topic that is not in the topic map and equals the configured pattern
\* of some active device resolves to a device with exactly that pattern, never
\* to one that matches only by wildcard or hardware-address suffix.
C5_ExactPatternOutranksOthers ==
    ( /\ lastCall.op = "message"
      /\ lastCall.arg.topic \notin DOMAIN device_topic_map
      /\ \E a \in DOMAIN devices :
            devices[a].is_active /\ devices[a].mqtt_topic_pattern = lastCall.arg.topic )
    => /\ lastCall.device \in DOMAIN devices
       /\ devices[lastCall.device].mqtt_topic_pattern = lastCall.arg.topic

\* no strategy before the fallback matches the topic: no topic-map entry of an
\* active device, and no active device with a pattern matches it exactly, by
\* trailing wildcard or by hardware-address suffix
C6_NoMatch(topic) ==
    /\ ~ \E d \in DOMAIN devices :
            /\ devices[d].is_active
            /\ topic \in DOMAIN device_topic_map
            /\ device_topic_map[topic] = d
    /\ \A d \in DOMAIN devices :
          (devices[d].is_active /\ devices[d].mqtt_topic_pattern # <<>>) =>
             LET pat == devices[d].mqtt_topic_pattern
                 hw  == devices[d].hardware_address
             IN  /\ pat # topic
                 /\ ~ ( /\ pat[Len(pat)] = "+"
                        /\ Len(topic) >= Len(pat) - 1
                        /\ \A i \in 1..(Len(pat) - 1) : topic[i] = pat[i] )
                 /\ ~ ( /\ Len(topic) >= Len(hw)
                        /\ \A i \in 1..Len(hw) :
                              topic[Len(topic) - Len(hw) + i] = hw[i] )

C6_Active == {d \in DOMAIN devices : devices[d].is_active}

\* C6: when no strategy matches, a message resolves to the only active device
\* if there is exactly one; with none or several it is dropped: no
\* TelemetryRecord, no Alarm (no check is left pending), no change of any
\* last_data_received.
C6_FallbackOnlyForSingleActiveDevice ==
    [][(ReceivesMessage /\ C6_NoMatch(lastCall'.arg.topic)) =>
         IF Cardinality(C6_Active) = 1
         THEN lastCall'.device \in C6_Active
         ELSE /\ lastCall'.device = 0
              /\ records' = records
              /\ alarms' = alarms
              /\ last_data_received' = last_data_received
              /\ pc' = pc
      ]_vars

\* an unmatched topic has been dropped while two or more devices are active
C6_Witness ==
    /\ lastCall.op = "message"
    /\ C6_NoMatch(lastCall.arg.topic)
    /\ Cardinality(C6_Active) >= 2
    /\ lastCall.device = 0
    /\ records = <<>>

\* an unmatched topic has been bound to the only active device and stored
C6_WitnessSingle ==
    /\ lastCall.op = "message"
    /\ C6_NoMatch(lastCall.arg.topic)
    /\ C6_Active = {lastCall.device}
    /\ Len(records) = 1
    /\ records[1].device = lastCall.device

-----------------------------------------------------------------------------
(* One receive loop ingesting messages for a configured device, with alarm  *)
(* acknowledgment by an admin                                               *)

\* device 1 is D of the end-to-end example: pattern EM/46521, subscribed;
\* the other devices are active and not configured for MQTT
IngestDevices ==
    [d \in DeviceIds |->
        IF d = 1 THEN Device(TRUE, HwOf(1), TopicEM46521, "h1", 1883)
        ELSE Device(TRUE, HwOf(d), <<>>, "", 1883)]

IngestThresholds == <<Th(1, "v", {2000}, {})>>

\* {"v": 180, "a": "5.2"}, {"v": 230}, {"a": "abc"} and a payload that is
\* not JSON
IngestPayloads ==
    { Payload("object", [k \in {"v", "a"} |->
                            IF k = "v" THEN JNum(1800) ELSE JStr(<<"5", ".", "2">>)]),
      Payload("object", One("v", JNum(2300))),
      Payload("object", One("a", JStr(<<"a", "b", "c">>))),
      Payload("invalid", EmptyMap) }

\* bodies of POST device-data: {"v": 180} and {"v": "180"}
HttpParamMaps == { One("v", JNum(1800)), One("v", JStr(<<"1", "8", "0">>)) }

\* DeviceDataCreateView.create for an active device d (the serializer rejects
\* an inactive or unknown device): store the row as sent, set
\* last_data_received, check the thresholds
HttpIngest(d, parameters) ==
    /\ UNCHANGED appVars
    /\ LET new == check_thresholds_and_create_alarms(alarms, thresholds, d, parameters)
       IN  /\ d \in DOMAIN devices
           /\ devices[d].is_active
           /\ Len(records) < MaxRecords
           /\ Len(alarms) + Len(new) <= MaxAlarms
           /\ records' = Append(records, DataRow(d, parameters))
           /\ last_data_received' = [last_data_received EXCEPT ![d] = Len(records) + 1]
           /\ alarms' = alarms \o new
           /\ created' = new
           /\ lastCall' = Call("post", d, parameters, 0)
           /\ UNCHANGED <<devices, thresholds, poolVars, thrVars>>

InitIngest ==
    /\ devices = IngestDevices
    /\ device_topic_map = One(TopicEM46521, 1)
    /\ clients = One(Broker1, Client(1, Broker1))
    /\ subscribed_topics = One(Broker1, {TopicEM46521})
    /\ live = {Client(1, Broker1)}
    /\ brokerCalls = <<>>
    /\ thresholds = IngestThresholds
    /\ alarms = <<>>
    /\ records = <<>>
    /\ last_data_received = [d \in DeviceIds |-> 0]
    /\ created = <<>>
    /\ lastCall = NoCall
    /\ NoThreads
    /\ NoSubscriber

NextIngest ==
    \/ \E topic \in {TopicEM46521, TopicEM9}, payload \in IngestPayloads :
          MqttReceive(1, topic, payload)
    \/ MqttCheck(1)
    \/ \E d \in DeviceIds, parameters \in HttpParamMaps : HttpIngest(d, parameters)
    \/ \E i \in 1..MaxAlarms, ack \in BOOLEAN : Acknowledge(i, ack)

SpecIngest == InitIngest /\ [][NextIngest]_vars

\* the step runs the threshold check of the message the loop has stored
ChecksMessage == pc[1] = "mqtt_check" /\ pc'[1] = "idle"

\* C4: a message that resolves to a device and normalises to a non-empty map
\* adds exactly one TelemetryRecord for that device, and does so before its
\* threshold check runs, whether the check then creates an alarm or not; the
\* check of a message creates no alarm for a (device, key) that has an
\* unacknowledged alarm.
C4_RecordStoredBeforeEvaluation ==
    [][/\ (ReceivesMessage /\ lastCall'.device # 0
             /\ DOMAIN lastCall'.parameters # {})
          => /\ records' = Append(records, [device |-> lastCall'.device,
                                            parameters |-> lastCall'.parameters])
             /\ alarms' = alarms
             /\ pc'[1] = "mqtt_check"
       /\ ChecksMessage
          => /\ records' = records
             /\ \E i \in 1..Len(records) :
                   records[i] = [device |-> frame[1].device,
                                 parameters |-> frame[1].parameters]
             /\ \A k \in Keys :
                   OpenRows(alarms, frame[1].device, k) # {}
                      => AddedRows(frame[1].device, k) = {}
      ]_vars

\* the message {"v": 180, "a": "5.2"} has been handled twice before
\* acknowledgment: two TelemetryRecords {v: 180, a: 5.2}, one Alarm
C4_Witness ==
    /\ pc[1] = "idle"
    /\ lastCall.op = "message"
    /\ lastCall.device = 1
    /\ lastCall.parameters = [k \in {"v", "a"} |-> IF k = "v" THEN JNum(1800) ELSE JNum(52)]
    /\ Len(records) = 2
    /\ records[2].parameters = lastCall.parameters
    /\ records[1] = records[2]
    /\ Len(alarms) = 1
    /\ ~alarms[1].acknowledged
    /\ alarms[1].device = records[2].device
    /\ alarms[1].parameter_key \in DOMAIN records[2].parameters
    /\ records[2].parameters[alarms[1].parameter_key].n < alarms[1].threshold
    /\ created = <<>>

-----------------------------------------------------------------------------
(* Payload normalisation over many payloads, on the subscribed device       *)

S230p5 == <<"2", "3", "0", ".", "5">>
Sabc   == <<"a", "b", "c">>

\* JSON values of the payloads: 180, "230.5", "abc", "-5", "1-2", "5-",
\* "1.2.3", "", ".", ".5", true, null, a list
NormalizeValues ==
    { JNum(1800), JStr(S230p5), JStr(Sabc), JStr(<<"-", "5">>),
      JStr(<<"1", "-", "2">>), JStr(<<"5", "-">>),
      JStr(<<"1", ".", "2", ".", "3">>), JStr(<<>>), JStr(<<".">>),
      JStr(<<".", "5">>), JBool(TRUE), JNull, JList }

\* {"v": x} for every value x, {"v": x, "a": y} for some, {}, and payloads
\* that are not a JSON object
NormalizePayloads ==
    {Payload("object", One("v", x)) : x \in NormalizeValues}
    \cup {Payload("object", [k \in {"v", "a"} |-> IF k = "v" THEN x ELSE y]) :
             x \in {JStr(S230p5), JStr(Sabc), JBool(TRUE)},
             y \in {JNum(52), JStr(Sabc)}}
    \cup {Payload("object", EmptyMap), Payload("nonobject", EmptyMap),
          Payload("invalid", EmptyMap)}

InitNormalize ==
    /\ devices = IngestDevices
    /\ device_topic_map = One(TopicEM46521, 1)
    /\ clients = One(Broker1, Client(1, Broker1))
    /\ subscribed_topics = One(Broker1, {TopicEM46521})
    /\ live = {Client(1, Broker1)}
    /\ brokerCalls = <<>>
    /\ thresholds = IngestThresholds
    /\ alarms = <<>>
    /\ records = <<>>
    /\ last_data_received = [d \in DeviceIds |-> 0]
    /\ created = <<>>
    /\ lastCall = NoCall
    /\ NoThreads
    /\ NoSubscriber

NextNormalize ==
    \/ \E payload \in NormalizePayloads : MqttReceive(1, TopicEM46521, payload)
    \/ MqttCheck(1)

SpecNormalize == InitNormalize /\ [][NextNormalize]_vars

\* a string of numeric form: digits with at most one leading minus and at
\* most one decimal point
C7_NumericForm(s) ==
    LET from == IF Len(s) > 0 /\ s[1] = "-" THEN 2 ELSE 1
        body == from..Len(s)
    IN  /\ \A i \in body : s[i] \in Digits \cup {"."}
        /\ Cardinality({i \in body : s[i] = "."}) <= 1
        /\ \E i \in body : s[i] \in Digits

\* the numbers the numeric strings of the model stand for, in tenths
C7_NumberOf(s) ==
    CASE s = S230p5 -> 2305
      [] s = <<"-", "5">> -> 0 - 50
      [] s = <<".", "5">> -> 5
      [] OTHER -> 0

\* the fields of a JSON object that are numbers or strings of numeric form
C7_NumericFields(data) ==
    {k \in DOMAIN data :
        \/ data[k].t = "num"
        \/ data[k].t = "str" /\ C7_NumericForm(data[k].s)}

\* C7: for a JSON-object payload the normalised map has exactly the keys whose
\* value is a number (kept unchanged) or a string of numeric form (parsed to
\* that number); everything else is dropped; when the map is empty the
\* message is rejected and nothing is stored.
C7_NormalizedExactlyNumericFields ==
    [][(ReceivesMessage /\ lastCall'.arg.payload.kind = "object") =>
         LET data == lastCall'.arg.payload.data
             p    == lastCall'.parameters
         IN  /\ DOMAIN p = C7_NumericFields(data)
             /\ \A k \in DOMAIN p \cap DOMAIN data :
                   p[k] = IF data[k].t = "str"
                          THEN JNum(C7_NumberOf(data[k].s)) ELSE data[k]
             /\ C7_NumericFields(data) = {}
                  => /\ records' = records
                     /\ last_data_received' = last_data_received
                     /\ pc' = pc
      ]_vars

-----------------------------------------------------------------------------
(* The connection pool, one call at a time *)

MaxBrokerCalls == 3

Put(f, k, value) == [x \in DOMAIN f \cup {k} |-> IF x = k THEN value ELSE f[x]]

\* device.mqtt_broker_port or 1883
PortOf(dev) == IF dev.mqtt_broker_port = 0 THEN 1883 ELSE dev.mqtt_broker_port

DeviceBrokerKey(dev) == BrokerKey(dev.mqtt_broker_host, PortOf(dev))

\* A call made on a paho client object: connect (with loop_start), subscribe,
\* unsubscribe, disconnect (with loop_stop); ok is whether it succeeded
BrokerCall(op, client, topic, ok) ==
    [op |-> op, client |-> client, topic |-> topic, ok |-> ok]

\* mqtt.Client(...): a fresh object, distinct from all earlier ones
NewClient(bk) ==
    Client(1 + Cardinality({i \in DOMAIN brokerCalls : brokerCalls[i].op = "connect"}), bk)

\* self.subscribed_topics[broker_key]: a defaultdict, reading makes the key
TopicsRead(st, bk) == IF bk \in DOMAIN st THEN st ELSE Put(st, bk, {})

AlreadySubscribed_never(topic, topics) == FALSE

\* topic in self.subscribed_topics[broker_key]
AlreadySubscribed(topic, topics) == topic \in topics

\* the result of client.subscribe is not looked at
ReportedSuccess_unchecked(subscribeOk) == TRUE

\* result and result[0] == mqtt.MQTT_ERR_SUCCESS
ReportedSuccess(subscribeOk) == subscribeOk

SkipsSubscribe(dev) ==
    \/ ~dev.is_active
    \/ dev.mqtt_broker_host = ""
    \/ dev.mqtt_topic_pattern = <<>>

\* subscribe_device(device), with _get_client inside it; connectOk is whether
\* client.connect returns rather than raises, subscribeOk whether
\* client.subscribe returns MQTT_ERR_SUCCESS
SubscribeDevice(d, connectOk, subscribeOk) ==
    /\ UNCHANGED appVars
    /\ LET dev    == devices[d]
           bk     == DeviceBrokerKey(dev)
           topic  == dev.mqtt_topic_pattern
           known  == bk \in DOMAIN clients
           client == IF known THEN clients[bk] ELSE NewClient(bk)
           calls1 == IF known THEN brokerCalls
                     ELSE Append(brokerCalls, BrokerCall("connect", client, <<>>, connectOk))
           topics == TopicsRead(subscribed_topics, bk)
       IN  IF SkipsSubscribe(dev)
           THEN /\ lastCall' = Call("subscribe", d, EmptyMap, "skipped")
                /\ UNCHANGED <<poolVars, dbVars, created, thrVars>>
           ELSE IF ~known /\ ~connectOk
           THEN \* connect raised: caught and logged by subscribe_device
                /\ Len(brokerCalls) < MaxBrokerCalls
                /\ brokerCalls' = calls1
                /\ lastCall' = Call("subscribe", d, EmptyMap, "connect_failed")
                /\ UNCHANGED <<clients, subscribed_topics, device_topic_map, live,
                               dbVars, created, thrVars>>
           ELSE IF AlreadySubscribed(topic, topics[bk])
           THEN /\ Len(calls1) <= MaxBrokerCalls
                /\ brokerCalls' = calls1
                /\ clients' = Put(clients, bk, client)
                /\ live' = IF known THEN live ELSE live \cup {client}
                /\ subscribed_topics' = topics
                /\ device_topic_map' = Put(device_topic_map, topic, d)
                /\ lastCall' = Call("subscribe", d, EmptyMap, "already")
                /\ UNCHANGED <<dbVars, created, thrVars>>
           ELSE /\ Len(calls1) < MaxBrokerCalls
                /\ brokerCalls' = Append(calls1,
                                         BrokerCall("subscribe", client, topic, subscribeOk))
                /\ clients' = Put(clients, bk, client)
                /\ live' = IF known THEN live ELSE live \cup {client}
                /\ subscribed_topics' =
                       IF ReportedSuccess(subscribeOk) THEN Put(topics, bk, topics[bk] \cup {topic})
                       ELSE topics
                /\ device_topic_map' =
                       IF ReportedSuccess(subscribeOk) THEN Put(device_topic_map, topic, d)
                       ELSE device_topic_map
                /\ lastCall' = Call("subscribe", d, EmptyMap,
                                    IF subscribeOk THEN "subscribed" ELSE "subscribe_failed")
                /\ UNCHANGED <<dbVars, created, thrVars>>

\* unsubscribe_device(device)
UnsubscribeDevice(d) ==
    /\ UNCHANGED appVars
    /\ LET dev   == devices[d]
           bk    == DeviceBrokerKey(dev)
           topic == dev.mqtt_topic_pattern
           topics == TopicsRead(subscribed_topics, bk)
       IN  /\ lastCall' = Call("unsubscribe", d, EmptyMap, 0)
           /\ IF topic # <<>> /\ bk \in DOMAIN clients
              THEN /\ Len(brokerCalls) < MaxBrokerCalls
                   /\ brokerCalls' = Append(brokerCalls,
                                       BrokerCall("unsubscribe", clients[bk], topic, TRUE))
                   /\ subscribed_topics' = Put(topics, bk, topics[bk] \ {topic})
                   /\ device_topic_map' =
                          [x \in DOMAIN device_topic_map \ {topic} |-> device_topic_map[x]]
                   /\ UNCHANGED <<clients, live>>
              ELSE UNCHANGED poolVars
           /\ UNCHANGED <<dbVars, created, thrVars>>

\* disconnect_all(): loop_stop and disconnect on every client of the map,
\* then the three maps are cleared
DisconnectAll ==
    /\ UNCHANGED appVars
    /\ live' = live \ {clients[bk] : bk \in DOMAIN clients}
    /\ clients' = <<>>
    /\ subscribed_topics' = <<>>
    /\ device_topic_map' = <<>>
    /\ lastCall' = Call("disconnect_all", 0, EmptyMap, 0)
    /\ UNCHANGED <<brokerCalls, dbVars, created, thrVars>>

\* Device rows with an MQTT configuration: two brokers, a port left unset,
\* an inactive device and one without a broker host
PoolConfigs ==
    { Device(TRUE, <<>>, TopicEM46521, "h1", 1883),
      Device(TRUE, <<>>, PatternEMAny, "h1", 0),
      Device(TRUE, <<>>, TopicEM46521, "h2", 1883),
      Device(FALSE, <<>>, TopicEM46521, "h1", 1883),
      Device(TRUE, <<>>, TopicEM9, "", 1883) }

InitPool ==
    /\ devices \in [DeviceIds -> PoolConfigs]
    /\ EmptyPool
    /\ thresholds = <<>>
    /\ alarms = <<>>
    /\ records = <<>>
    /\ last_data_received = [d \in DeviceIds |-> 0]
    /\ created = <<>>
    /\ lastCall = NoCall
    /\ NoThreads
    /\ NoSubscriber

NextPool ==
    \/ \E d \in DeviceIds, connectOk \in BOOLEAN, subscribeOk \in BOOLEAN :
          SubscribeDevice(d, connectOk, subscribeOk)
    \/ \E d \in DeviceIds : UnsubscribeDevice(d)
    \/ DisconnectAll

SpecPool == InitPool /\ [][NextPool]_vars

\* the calls of the given kind made so far on clients of broker bk
C8_Calls(calls, op, bk) ==
    {i \in DOMAIN calls : calls[i].op = op /\ calls[i].client.key = bk}

C8_Broker(d) ==
    <<devices[d].mqtt_broker_host,
      IF devices[d].mqtt_broker_port = 0 THEN 1883 ELSE devices[d].mqtt_broker_port>>

\* C8: a subscribe_device call for an active device that succeeded issued
\* exactly one broker subscribe and left exactly one connection for the
\* device's broker; a subscribe_device call for the same device right after it
\* issues no subscribe, creates no connection, and leaves clients,
\* subscribed_topics and device_topic_map unchanged.
C8_IdempotentSubscription ==
    [][/\ (lastCall'.op = "subscribe" /\ lastCall'.arg = "subscribed")
          => LET bk == C8_Broker(lastCall'.device)
             IN  /\ Cardinality(C8_Calls(brokerCalls', "subscribe", bk))
                      = Cardinality(C8_Calls(brokerCalls, "subscribe", bk)) + 1
                 /\ Cardinality({c \in live' : c.key = bk}) = 1
                 /\ Cardinality(C8_Calls(brokerCalls', "connect", bk))
                      <= Cardinality(C8_Calls(brokerCalls, "connect", bk)) + 1
       /\ ( /\ lastCall.op = "subscribe" /\ lastCall.arg = "subscribed"
            /\ lastCall'.op = "subscribe" /\ lastCall'.device = lastCall.device )
          => /\ brokerCalls' = brokerCalls
             /\ live' = live
             /\ clients' = clients
             /\ subscribed_topics' = subscribed_topics
             /\ device_topic_map' = device_topic_map
             /\ lastCall'.arg = "already"
      ]_vars

\* a first subscribe_device call made the connection and the subscription,
\* and a second call for the same device has just returned
C8_Witness ==
    /\ lastCall.op = "subscribe" /\ lastCall.arg = "already"
    /\ devices[lastCall.device].is_active
    /\ Len(brokerCalls) = 2
    /\ brokerCalls[1].op = "connect" /\ brokerCalls[1].ok
    /\ brokerCalls[2].op = "subscribe" /\ brokerCalls[2].ok
    /\ brokerCalls[2].topic = devices[lastCall.device].mqtt_topic_pattern
    /\ C8_Broker(lastCall.device) \in DOMAIN clients
    /\ device_topic_map = One(devices[lastCall.device].mqtt_topic_pattern, lastCall.device)

-----------------------------------------------------------------------------
(* subscribe_device called from several threads: the save-signal handler in *)
(* request threads, the registration view, the reconciliation thread.  One  *)
(* step per access to the maps of the manager; the manager holds no lock.   *)

PoolFrame(d, client) == [device |-> d, client |-> client]

FrameBroker(t) == DeviceBrokerKey(devices[frame[t].device])

FrameTopic(t) == devices[frame[t].device].mqtt_topic_pattern

\* subscribe_device entered; inactive or unconfigured devices return at once
SubscribeBegin(t, d) ==
    /\ UNCHANGED appVars
    /\ pc[t] = "idle"
    /\ ~SkipsSubscribe(devices[d])
    /\ pc' = [pc EXCEPT ![t] = "get_client"]
    /\ frame' = [frame EXCEPT ![t] = PoolFrame(d, Client(0, DeviceBrokerKey(devices[d])))]
    /\ lastCall' = Call("subscribe", d, EmptyMap, t)
    /\ UNCHANGED <<poolVars, dbVars, created>>

\* _get_client: if broker_key in self.clients: return self.clients[broker_key]
GetClient(t) ==
    /\ UNCHANGED appVars
    /\ pc[t] = "get_client"
    /\ IF FrameBroker(t) \in DOMAIN clients
       THEN /\ frame' = [frame EXCEPT ![t].client = clients[FrameBroker(t)]]
            /\ pc' = [pc EXCEPT ![t] = "check_subscribed"]
       ELSE /\ pc' = [pc EXCEPT ![t] = "connect"]
            /\ UNCHANGED frame
    /\ UNCHANGED <<poolVars, dbVars, created, lastCall>>

\* _get_client: mqtt.Client(), client.connect(host, port, 60), loop_start()
Connect(t, connectOk) ==
    /\ UNCHANGED appVars
    /\ pc[t] = "connect"
    /\ Len(brokerCalls) < MaxBrokerCalls
    /\ LET client == NewClient(FrameBroker(t))
       IN  /\ brokerCalls' = Append(brokerCalls,
                                    BrokerCall("connect", client, <<>>, connectOk))
           /\ IF connectOk
              THEN /\ live' = live \cup {client}
                   /\ frame' = [frame EXCEPT ![t].client = client]
                   /\ pc' = [pc EXCEPT ![t] = "store_client"]
              ELSE /\ pc' = [pc EXCEPT ![t] = "idle"]
                   /\ frame' = [frame EXCEPT ![t] = NoFrame]
                   /\ UNCHANGED live
    /\ UNCHANGED <<clients, subscribed_topics, device_topic_map, dbVars, created,
                   lastCall>>

\* _get_client: self.clients[broker_key] = client
StoreClient(t) ==
    /\ UNCHANGED appVars
    /\ pc[t] = "store_client"
    /\ clients' = Put(clients, FrameBroker(t), frame[t].client)
    /\ pc' = [pc EXCEPT ![t] = "check_subscribed"]
    /\ UNCHANGED <<subscribed_topics, device_topic_map, live, brokerCalls, frame,
                   dbVars, created, lastCall>>

\* subscribe_device: if topic in self.subscribed_topics[broker_key]
CheckSubscribed(t) ==
    /\ UNCHANGED appVars
    /\ pc[t] = "check_subscribed"
    /\ LET topics == TopicsRead(subscribed_topics, FrameBroker(t))
       IN  /\ subscribed_topics' = topics
           /\ IF AlreadySubscribed(FrameTopic(t), topics[FrameBroker(t)])
              THEN /\ device_topic_map' =
                          Put(device_topic_map, FrameTopic(t), frame[t].device)
                   /\ pc' = [pc EXCEPT ![t] = "idle"]
                   /\ frame' = [frame EXCEPT ![t] = NoFrame]
              ELSE /\ pc' = [pc EXCEPT ![t] = "subscribe"]
                   /\ UNCHANGED <<device_topic_map, frame>>
    /\ UNCHANGED <<clients, live, brokerCalls, dbVars, created, lastCall>>

\* subscribe_device: client.subscribe(topic) and the recording of its success
Subscribe(t, subscribeOk) ==
    /\ UNCHANGED appVars
    /\ pc[t] = "subscribe"
    /\ Len(brokerCalls) < MaxBrokerCalls
    /\ brokerCalls' = Append(brokerCalls,
                        BrokerCall("subscribe", frame[t].client, FrameTopic(t), subscribeOk))
    /\ IF subscribeOk
       THEN LET topics == TopicsRead(subscribed_topics, FrameBroker(t))
            IN  /\ subscribed_topics' =
                       Put(topics, FrameBroker(t), topics[FrameBroker(t)] \cup {FrameTopic(t)})
                /\ device_topic_map' =
                       Put(device_topic_map, FrameTopic(t), frame[t].device)
       ELSE UNCHANGED <<subscribed_topics, device_topic_map>>
    /\ pc' = [pc EXCEPT ![t] = "idle"]
    /\ frame' = [frame EXCEPT ![t] = NoFrame]
    /\ UNCHANGED <<clients, live, dbVars, created, lastCall>>

\* Active devices of brokers h1:1883 (one leaving the port unset) and h2:1883
ConcConfigs ==
    { Device(TRUE, <<>>, TopicEM46521, "h1", 1883),
      Device(TRUE, <<>>, PatternEMAny, "h1", 0),
      Device(TRUE, <<>>, TopicEM46521, "h2", 1883) }

InitPoolConc ==
    /\ devices \in [DeviceIds -> ConcConfigs]
    /\ EmptyPool
    /\ thresholds = <<>>
    /\ alarms = <<>>
    /\ records = <<>>
    /\ last_data_received = [d \in DeviceIds |-> 0]
    /\ created = <<>>
    /\ lastCall = NoCall
    /\ NoThreads
    /\ NoSubscriber

NextPoolConc ==
    \E t \in Threads :
        \/ \E d \in DeviceIds : SubscribeBegin(t, d)
        \/ GetClient(t)
        \/ \E connectOk \in BOOLEAN : Connect(t, connectOk)
        \/ StoreClient(t)
        \/ CheckSubscribed(t)
        \/ \E subscribeOk \in BOOLEAN : Subscribe(t, subscribeOk)

SpecPoolConc == InitPoolConc /\ [][NextPoolConc]_vars

\* C9: at most one live client exists per (host, port), and every live client
\* is the one recorded for its broker in the clients map (a client a thread
\* has connected and is about to record is not counted against this).
C9_OneLiveClientPerBroker ==
    /\ \A c1 \in live, c2 \in live : c1.key = c2.key => c1 = c2
    /\ \A c \in live :
          \/ c.key \in DOMAIN clients /\ clients[c.key] = c
          \/ \E t \in Threads : pc[t] = "store_client" /\ frame[t].client = c

\* C10: while a thread is inside subscribe_device (connection creation
\* included), no other thread changes the broker-to-connection map, the
\* broker-to-topic-set map or the topic-to-deviceId map.
C10_PoolMutationsMutuallyExclusive ==
    [][\A t \in Threads :
          (pc[t] # "idle" /\ pc'[t] = pc[t])
             => /\ clients' = clients
                /\ subscribed_topics' = subscribed_topics
                /\ device_topic_map' = device_topic_map
      ]_vars

-----------------------------------------------------------------------------
(* unsubscribe_device, one call at a time *)

C11_Broker(d) ==
    <<devices[d].mqtt_broker_host,
      IF devices[d].mqtt_broker_port = 0 THEN 1883 ELSE devices[d].mqtt_broker_port>>

\* the topic of device d is in the bookkeeping of the pool: it is in the
\* topic set of the device's broker
C11_Subscribed(d) ==
    /\ C11_Broker(d) \in DOMAIN subscribed_topics
    /\ devices[d].mqtt_topic_pattern \in subscribed_topics[C11_Broker(d)]

\* C11: unsubscribe_device(d) for a device whose topic is subscribed issues
\* one unsubscribe to the broker and leaves the topic absent from the broker's
\* topic set and from the topic-to-deviceId map; when the topic of the device
\* is not in the bookkeeping it issues no broker call and changes no pool
\* state.
C11_UnsubscribeRemovesOrNoOp ==
    [][lastCall'.op = "unsubscribe" =>
         LET d     == lastCall'.device
             bk    == C11_Broker(d)
             topic == devices[d].mqtt_topic_pattern
         IN  IF C11_Subscribed(d)
             THEN /\ Len(brokerCalls') = Len(brokerCalls) + 1
                  /\ brokerCalls'[Len(brokerCalls')].op = "unsubscribe"
                  /\ brokerCalls'[Len(brokerCalls')].topic = topic
                  /\ brokerCalls'[Len(brokerCalls')].client.key = bk
                  /\ topic \notin subscribed_topics'[bk]
                  /\ topic \notin DOMAIN device_topic_map'
             ELSE /\ brokerCalls' = brokerCalls
                  /\ clients' = clients
                  /\ subscribed_topics' = subscribed_topics
                  /\ device_topic_map' = device_topic_map
                  /\ live' = live
      ]_vars

-----------------------------------------------------------------------------
(* The on_connect callback of a pooled client *)

\* all orders in which the elements of a set can be iterated
Orderings(S) ==
    {order \in [1..Cardinality(S) -> S] : \A x \in S : \E i \in DOMAIN order : order[i] = x}

ResubscribeTopics_allBrokers(st, bk) == UNION {st[k] : k \in DOMAIN st}

\* list(self.subscribed_topics[broker_key])
ResubscribeTopics(st, bk) == TopicsRead(st, bk)[bk]

\* rc = getattr(reason_code, 'value', reason_code) if reason_code is not None
\* else 0; reason_code is {} for None, else the set of its value
ReasonValue(reason_code) ==
    IF reason_code = {} THEN 0 ELSE CHOOSE rc \in reason_code : TRUE

\* on_connect(client, userdata, flags, reason_code) of the client made for
\* broker client.key; oks are the results of the subscribe calls, which the
\* callback only logs
OnConnect(client, reason_code) ==
    /\ UNCHANGED appVars
    /\ lastCall' = Call("on_connect", 0, EmptyMap,
                        [client |-> client, reason_code |-> reason_code])
    /\ IF ReasonValue(reason_code) = 0
       THEN \E order \in Orderings(ResubscribeTopics(subscribed_topics, client.key)) :
            \E oks \in [DOMAIN order -> BOOLEAN] :
               /\ Len(brokerCalls) + Len(order) <= MaxBrokerCalls
               /\ brokerCalls' = brokerCalls \o
                      [i \in DOMAIN order |->
                          BrokerCall("subscribe", client, order[i], oks[i])]
               /\ subscribed_topics' = TopicsRead(subscribed_topics, client.key)
       ELSE UNCHANGED <<brokerCalls, subscribed_topics>>
    /\ UNCHANGED <<clients, device_topic_map, live, dbVars, created, thrVars>>

Broker2 == BrokerKey("h2", 1883)

\* the reason codes of a connection acknowledgment: none, accepted, refused
ReasonCodes == {{}, {0}, {5}}

\* A pool in which the brokers of the devices have their clients and any part
\* of the devices' topics is subscribed; brokerCalls starts empty and holds
\* the calls made from here on
InitReconnect ==
    /\ devices \in [DeviceIds -> ConcConfigs]
    /\ clients = [bk \in {DeviceBrokerKey(devices[d]) : d \in DeviceIds} |->
                     Client(IF bk = Broker1 THEN 1 ELSE 2, bk)]
    /\ live = {clients[bk] : bk \in DOMAIN clients}
    /\ \E ds \in SUBSET DeviceIds :
          /\ subscribed_topics =
                [bk \in DOMAIN clients |->
                    {devices[d].mqtt_topic_pattern :
                        d \in {x \in ds : DeviceBrokerKey(devices[x]) = bk}}]
          /\ device_topic_map =
                [topic \in {devices[d].mqtt_topic_pattern : d \in ds} |->
                    CHOOSE d \in ds :
                       /\ devices[d].mqtt_topic_pattern = topic
                       /\ \A x \in ds : devices[x].mqtt_topic_pattern = topic => x <= d]
    /\ brokerCalls = <<>>
    /\ thresholds = <<>>
    /\ alarms = <<>>
    /\ records = <<>>
    /\ last_data_received = [d \in DeviceIds |-> 0]
    /\ created = <<>>
    /\ lastCall = NoCall
    /\ NoThreads
    /\ NoSubscriber

NextReconnect ==
    \/ \E client \in live, reason_code \in ReasonCodes : OnConnect(client, reason_code)
    \/ \E d \in DeviceIds : UnsubscribeDevice(d)

SpecReconnect == InitReconnect /\ [][NextReconnect]_vars

\* the topics a broker's topic set remembers (none when the broker has no set)
C12_Remembered(bk) ==
    IF bk \in DOMAIN subscribed_topics THEN subscribed_topics[bk] ELSE {}

\* C12: on a successful (re)connection of a broker's client a subscribe is
\* issued on that client once for every topic in the broker's topic set at
\* that moment and for no other topic (none that is remembered only under a
\* different broker); a rejected connection acknowledgment issues no subscribe.
C12_ResubscribeOnConnect ==
    [][lastCall'.op = "on_connect" =>
         LET client == lastCall'.arg.client
             issued == (Len(brokerCalls) + 1)..Len(brokerCalls')
         IN  /\ SubSeq(brokerCalls', 1, Len(brokerCalls)) = brokerCalls
             /\ lastCall'.arg.reason_code = {0} =>
                  /\ \A i \in issued : /\ brokerCalls'[i].op = "subscribe"
                                       /\ brokerCalls'[i].client = client
                  /\ {brokerCalls'[i].topic : i \in issued} = C12_Remembered(client.key)
                  /\ Cardinality(issued) = Cardinality(C12_Remembered(client.key))
             /\ lastCall'.arg.reason_code = {5} => brokerCalls' = brokerCalls
      ]_vars

\* a client has just been connected successfully and has resubscribed its
\* topic while another broker remembers a topic this broker does not
C12_Witness ==
    /\ lastCall.op = "on_connect"
    /\ lastCall.arg.reason_code = {0}
    /\ Len(brokerCalls) = 1
    /\ brokerCalls[1].op = "subscribe"
    /\ brokerCalls[1].client = lastCall.arg.client
    /\ brokerCalls[1].topic \in C12_Remembered(lastCall.arg.client.key)
    /\ \E bk \in DOMAIN subscribed_topics :
          /\ bk # lastCall.arg.client.key
          /\ subscribed_topics[bk] \ C12_Remembered(lastCall.arg.client.key) # {}

\* a refused connection acknowledgment has arrived at a client whose broker
\* remembers a topic, and nothing was issued
C12_WitnessRejected ==
    /\ lastCall.op = "on_connect"
    /\ lastCall.arg.reason_code = {5}
    /\ C12_Remembered(lastCall.arg.client.key) # {}
    /\ brokerCalls = <<>>

-----------------------------------------------------------------------------
(* The reconciliation pass: subscribe_all_devices, device updates through   *)
(* the post_save signal, and process restart                                *)

MaxPassCalls == 4

PoolState(c, st, dtm, lv, calls) ==
    [clients |-> c, subscribed_topics |-> st, device_topic_map |-> dtm,
     live |-> lv, brokerCalls |-> calls]

ThePool == PoolState(clients, subscribed_topics, device_topic_map, live, brokerCalls)

SetPool(pool) ==
    /\ clients' = pool.clients
    /\ subscribed_topics' = pool.subscribed_topics
    /\ device_topic_map' = pool.device_topic_map
    /\ live' = pool.live
    /\ brokerCalls' = pool.brokerCalls

\* mqtt.Client(...) given the calls made so far
FreshClient(calls, bk) ==
    Client(1 + Cardinality({i \in DOMAIN calls : calls[i].op = "connect"}), bk)

\* _get_client(host, port, ...): the client of the broker, made and connected
\* when the map has none; raised when client.connect raises
get_client(pool, dev, connectOk) ==
    LET bk     == DeviceBrokerKey(dev)
        client == FreshClient(pool.brokerCalls, bk)
        calls1 == Append(pool.brokerCalls, BrokerCall("connect", client, <<>>, connectOk))
    IN  IF bk \in DOMAIN pool.clients
        THEN [raised |-> FALSE, client |-> pool.clients[bk], pool |-> pool]
        ELSE IF connectOk
        THEN [raised |-> FALSE, client |-> client,
              pool |-> [pool EXCEPT !.clients = Put(pool.clients, bk, client),
                                    !.live = pool.live \cup {client},
                                    !.brokerCalls = calls1]]
        ELSE [raised |-> TRUE, client |-> client,
              pool |-> [pool EXCEPT !.brokerCalls = calls1]]

Propagates_uncaught(raised) == raised

\* subscribe_device: try ... except Exception as e: logger.error(...)
Propagates(raised) == FALSE

\* subscribe_device(device) for the row dev of device d
subscribe_device(pool, d, dev, connectOk, subscribeOk) ==
    LET bk     == DeviceBrokerKey(dev)
        topic  == dev.mqtt_topic_pattern
        got    == get_client(pool, dev, connectOk)
        topics == TopicsRead(got.pool.subscribed_topics, bk)
        read   == [got.pool EXCEPT !.subscribed_topics = topics]
        called == [read EXCEPT !.brokerCalls =
                      Append(read.brokerCalls,
                             BrokerCall("subscribe", got.client, topic, subscribeOk))]
    IN  IF SkipsSubscribe(dev)
        THEN [pool |-> pool, outcome |-> "skipped", raised |-> FALSE]
        ELSE IF got.raised
        THEN [pool |-> got.pool, outcome |-> "connect_failed",
              raised |-> Propagates(TRUE)]
        ELSE IF AlreadySubscribed(topic, topics[bk])
        THEN [pool |-> [read EXCEPT !.device_topic_map =
                                       Put(read.device_topic_map, topic, d)],
              outcome |-> "already", raised |-> FALSE]
        ELSE IF subscribeOk
        THEN [pool |-> [called EXCEPT
                           !.subscribed_topics = Put(topics, bk, topics[bk] \cup {topic}),
                           !.device_topic_map = Put(read.device_topic_map, topic, d)],
              outcome |-> "subscribed", raised |-> FALSE]
        ELSE [pool |-> called, outcome |-> "subscribe_failed", raised |-> FALSE]

\* Device.objects.filter(is_active=True, mqtt_broker_host__isnull=False)
\*     .exclude(mqtt_broker_host='')
PassDevices(devs) ==
    {d \in DOMAIN devs : devs[d].is_active /\ devs[d].mqtt_broker_host # ""}

\* the rows of a queryset in the order of Device.Meta.ordering, newest first
RECURSIVE NewestFirst(_)
NewestFirst(ds) ==
    IF ds = {} THEN <<>>
    ELSE LET d == CHOOSE x \in ds : \A y \in ds : y <= x
         IN  <<d>> \o NewestFirst(ds \ {d})

\* for device in device_list: self.subscribe_device(device); a call that
\* raises ends the loop
RECURSIVE SubscribeLoop(_, _, _, _)
SubscribeLoop(pool, device_list, outcomes, processed) ==
    IF device_list = <<>>
    THEN [pool |-> pool, raised |-> FALSE, processed |-> processed]
    ELSE LET d == Head(device_list)
             done(r) == Append(processed, [device |-> d, outcome |-> r.outcome])
             after(r) ==
                 IF r.raised
                 THEN [pool |-> r.pool, raised |-> TRUE, processed |-> done(r)]
                 ELSE SubscribeLoop(r.pool, Tail(device_list), outcomes, done(r))
         IN  CHOOSE res \in
                 {after(r) : r \in {subscribe_device(pool, d, devices[d],
                                                    outcomes[d].connectOk,
                                                    outcomes[d].subscribeOk)}} : TRUE

subscribe_all_devices(pool, outcomes) ==
    SubscribeLoop(pool, NewestFirst(PassDevices(devices)), outcomes, <<>>)

\* what client.connect and client.subscribe do for each device of a pass:
\* both work, connect raises, or subscribe returns an error
OutcomeKinds ==
    {[connectOk |-> TRUE, subscribeOk |-> TRUE],
     [connectOk |-> FALSE, subscribeOk |-> TRUE],
     [connectOk |-> TRUE, subscribeOk |-> FALSE]}

Outcomes == [DeviceIds -> OutcomeKinds]

\* one pass of the mqtt-subscriber thread:
\* try: manager.subscribe_all_devices() except Exception: logger.error(...)
SubscribeAllDevices(outcomes) ==
    /\ UNCHANGED appVars
    /\ LET r == subscribe_all_devices(ThePool, outcomes)
       IN  /\ Len(r.pool.brokerCalls) <= MaxPassCalls
           /\ SetPool(r.pool)
           /\ lastCall' = Call("subscribe_all", 0, EmptyMap,
                               [raised |-> r.raised, processed |-> r.processed,
                                outcomes |-> outcomes])
           /\ UNCHANGED <<dbVars, created, thrVars>>

\* DeviceDetailView.update: serializer.save() writes the row, and the
\* post_save receiver device_saved subscribes the saved instance
SaveDevice(d, row, connectOk, subscribeOk) ==
    /\ UNCHANGED appVars
    /\ LET r == IF row.mqtt_broker_host = "" \/ row.mqtt_topic_pattern = <<>>
                   \/ ~row.is_active
                THEN [pool |-> ThePool, outcome |-> "skipped", raised |-> FALSE]
                ELSE subscribe_device(ThePool, d, row, connectOk, subscribeOk)
       IN  /\ Len(r.pool.brokerCalls) <= MaxPassCalls
           /\ devices' = [devices EXCEPT ![d] = row]
           /\ SetPool(r.pool)
           /\ lastCall' = Call("save", d, EmptyMap, r.outcome)
           /\ UNCHANGED <<thresholds, alarms, records, last_data_received, created,
                          thrVars>>

\* the process ends and starts again: a new manager, no client objects
Restart ==
    /\ UNCHANGED appVars
    /\ clients' = <<>>
    /\ subscribed_topics' = <<>>
    /\ device_topic_map' = <<>>
    /\ live' = {}
    /\ brokerCalls' = <<>>
    /\ lastCall' = Call("restart", 0, EmptyMap, 0)
    /\ UNCHANGED <<dbVars, created, thrVars>>

\* Device rows of a pass: two brokers, a port left unset, an inactive device
PassConfigs ==
    { Device(TRUE, <<>>, TopicEM46521, "h1", 1883),
      Device(TRUE, <<>>, PatternEMAny, "h1", 0),
      Device(TRUE, <<>>, TopicEM46521, "h2", 1883),
      Device(FALSE, <<>>, TopicEM46521, "h1", 1883) }

InitReconcile ==
    /\ devices \in [DeviceIds -> PassConfigs]
    /\ EmptyPool
    /\ thresholds = <<>>
    /\ alarms = <<>>
    /\ records = <<>>
    /\ last_data_received = [d \in DeviceIds |-> 0]
    /\ created = <<>>
    /\ lastCall = NoCall
    /\ NoThreads
    /\ NoSubscriber

NextReconcile ==
    \/ \E outcomes \in Outcomes : SubscribeAllDevices(outcomes)
    \/ Restart

SpecReconcile == InitReconcile /\ [][NextReconcile]_vars

C13_Broker(row) ==
    <<row.mqtt_broker_host,
      IF row.mqtt_broker_port = 0 THEN 1883 ELSE row.mqtt_broker_port>>

\* the devices a pass has to subscribe
C13_Eligible ==
    {d \in DeviceIds : /\ devices[d].is_active
                       /\ devices[d].mqtt_broker_host # ""
                       /\ devices[d].mqtt_topic_pattern # <<>>}

\* C13: a connect failure inside subscribe_device does not leave
\* subscribe_all_devices: the pass does not raise and goes through every
\* device, each device whose own connect and subscribe work ends subscribed;
\* for a broker whose connects all failed nothing is recorded in clients,
\* subscribed_topics or (for the failed device) device_topic_map; and a call
\* makes no second connect attempt: at most one attempt per subscribe_device
\* call, none after a successful one.
C13_ConnectFailureContained ==
    [][lastCall'.op = "subscribe_all" =>
         LET issued   == (Len(brokerCalls) + 1)..Len(brokerCalls')
             connects == {i \in issued : brokerCalls'[i].op = "connect"}
             failedBk == {brokerCalls'[i].client.key :
                             i \in {j \in connects : ~brokerCalls'[j].ok}}
             okBk     == {brokerCalls'[i].client.key :
                             i \in {j \in connects : brokerCalls'[j].ok}}
             outs     == lastCall'.arg.outcomes
             seen     == lastCall'.arg.processed
         IN  /\ SubSeq(brokerCalls', 1, Len(brokerCalls)) = brokerCalls
             /\ ~lastCall'.arg.raised
             /\ {seen[i].device : i \in DOMAIN seen} = PassDevices(devices)
             /\ \A d \in C13_Eligible :
                   ( /\ outs[d].subscribeOk
                     /\ \/ C13_Broker(devices[d]) \in DOMAIN clients
                        \/ outs[d].connectOk )
                   => /\ C13_Broker(devices[d]) \in DOMAIN subscribed_topics'
                      /\ devices[d].mqtt_topic_pattern
                            \in subscribed_topics'[C13_Broker(devices[d])]
             /\ \A bk \in failedBk \ okBk :
                   /\ bk \notin DOMAIN clients'
                   /\ bk \notin DOMAIN subscribed_topics'
                   /\ \A d \in C13_Eligible :
                         ( /\ C13_Broker(devices[d]) = bk
                           /\ devices[d].mqtt_topic_pattern \in DOMAIN device_topic_map'
                           /\ device_topic_map'[devices[d].mqtt_topic_pattern] = d )
                         => /\ devices[d].mqtt_topic_pattern \in DOMAIN device_topic_map
                            /\ device_topic_map[devices[d].mqtt_topic_pattern] = d
             /\ \A bk \in failedBk \cup okBk :
                   /\ Cardinality({i \in connects : brokerCalls'[i].client.key = bk})
                        <= Cardinality({d \in C13_Eligible : C13_Broker(devices[d]) = bk})
                   /\ \A i \in connects, j \in connects :
                         ( /\ brokerCalls'[i].client.key = bk
                           /\ brokerCalls'[j].client.key = bk
                           /\ brokerCalls'[i].ok ) => j <= i
      ]_vars

\* a pass in which the connect for the first device failed and the next
\* device, on another broker, was connected and subscribed
C13_Witness ==
    /\ lastCall.op = "subscribe_all"
    /\ Len(lastCall.arg.processed) = 2
    /\ lastCall.arg.processed[1].outcome = "connect_failed"
    /\ Len(brokerCalls) = 3
    /\ brokerCalls[1].op = "connect" /\ ~brokerCalls[1].ok
    /\ brokerCalls[2].op = "connect" /\ brokerCalls[2].ok
    /\ brokerCalls[2].client.key # brokerCalls[1].client.key
    /\ brokerCalls[3].op = "subscribe" /\ brokerCalls[3].ok
    /\ DOMAIN clients = {brokerCalls[2].client.key}
    /\ DOMAIN subscribed_topics = {brokerCalls[2].client.key}

-----------------------------------------------------------------------------
(* Reconciliation passes between device updates *)

InitEdit ==
    /\ devices \in [DeviceIds -> PassConfigs]
    /\ EmptyPool
    /\ thresholds = <<>>
    /\ alarms = <<>>
    /\ records = <<>>
    /\ last_data_received = [d \in DeviceIds |-> 0]
    /\ created = <<>>
    /\ lastCall = NoCall
    /\ NoThreads
    /\ NoSubscriber

NextEdit ==
    \/ \E outcomes \in Outcomes : SubscribeAllDevices(outcomes)
    \/ \E d \in DeviceIds, row \in PassConfigs, o \in OutcomeKinds :
          SaveDevice(d, row, o.connectOk, o.subscribeOk)
    \/ Restart

SpecEdit == InitEdit /\ [][NextEdit]_vars

C20_Broker(row) ==
    <<row.mqtt_broker_host,
      IF row.mqtt_broker_port = 0 THEN 1883 ELSE row.mqtt_broker_port>>

\* the topic patterns of the active devices now configured for broker bk
C20_Wanted(bk) ==
    {devices[d].mqtt_topic_pattern :
        d \in {x \in DeviceIds : /\ devices[x].is_active
                                 /\ devices[x].mqtt_broker_host # ""
                                 /\ devices[x].mqtt_topic_pattern # <<>>
                                 /\ C20_Broker(devices[x]) = bk}}

C20_Remembered(st, bk) == IF bk \in DOMAIN st THEN st[bk] ELSE {}

\* C20: after a pass of subscribe_all_devices in which every connect and
\* every subscribe succeeded, the topic set of each broker is exactly the set
\* of topic patterns of the active devices now configured for that broker: no
\* topic remains for a device that was deactivated or whose pattern or broker
\* was changed.
C20_PassReachesDesiredSubscriptions ==
    [][( /\ lastCall'.op = "subscribe_all"
         /\ ~lastCall'.arg.raised
         /\ \A i \in (Len(brokerCalls) + 1)..Len(brokerCalls') : brokerCalls'[i].ok )
       => \A bk \in DOMAIN subscribed_topics' \cup
                    {C20_Broker(devices[d]) : d \in DeviceIds} :
             C20_Remembered(subscribed_topics', bk) = C20_Wanted(bk)
      ]_vars

-----------------------------------------------------------------------------
(* Malformed payloads *)

\* not JSON, JSON but not an object, or an object with no numeric field
C14_Malformed(payload) ==
    \/ payload.kind \in {"invalid", "nonobject"}
    \/ payload.kind = "object" /\ C7_NumericFields(payload.data) = {}

\* C14: a message whose payload is not JSON, is not a JSON object, or has no
\* numeric field is dropped: no record and no alarm is created, the device's
\* last_data_received is unchanged, and nothing of it is left to be processed.
C14_MalformedPayloadDropped ==
    [][(ReceivesMessage /\ C14_Malformed(lastCall'.arg.payload)) =>
          /\ records' = records
          /\ alarms' = alarms
          /\ last_data_received' = last_data_received
          /\ pc' = pc
          /\ frame' = frame
      ]_vars

-----------------------------------------------------------------------------
(* Failures inside _handle_message *)

\* where processing a message fails: the Device queries of the resolution,
\* msg.payload.decode, DeviceData.objects.create, device.save, or
\* check_thresholds_and_create_alarms
FailStages == {"resolve", "decode", "store", "save", "check"}

HandlerRaises_uncaught(stage) == TRUE

\* _handle_message: try ... except Exception as e: logger.exception(...)
HandlerRaises(stage) == FALSE

\* _handle_message for a message whose processing raises at the given stage;
\* an exception leaving the handler ends the network loop of the client
MqttReceiveFailing(t, topic, payload, stage) ==
    /\ UNCHANGED appVars
    /\ LET d == ResolveDevice(topic, device_topic_map, devices)
           parameters == IF payload.kind = "object" THEN Normalize(payload.data)
                         ELSE EmptyMap
           stores == d # 0 /\ payload.kind = "object" /\ DOMAIN parameters # {}
           stored == stage \in {"save", "check"}
       IN  /\ pc[t] = "idle"
           /\ stage = "decode" => d # 0
           /\ stage \in {"store", "save", "check"} => stores
           /\ lastCall' = Call("message_failed", IF stage = "resolve" THEN 0 ELSE d,
                               IF stage \in {"resolve", "decode"} THEN EmptyMap
                               ELSE parameters,
                               [topic |-> topic, payload |-> payload, stage |-> stage,
                                raised |-> HandlerRaises(stage)])
           /\ IF stored
              THEN /\ Len(records) < MaxRecords
                   /\ records' = Append(records, DataRow(d, parameters))
              ELSE UNCHANGED records
           /\ last_data_received' =
                  IF stage = "check"
                  THEN [last_data_received EXCEPT ![d] = Len(records) + 1]
                  ELSE last_data_received
           /\ live' = IF HandlerRaises(stage) THEN live \ {clients[Broker1]} ELSE live
           /\ UNCHANGED <<devices, thresholds, alarms, created, clients,
                          subscribed_topics, device_topic_map, brokerCalls, thrVars>>

NextFaults ==
    \/ \E topic \in {TopicEM46521, TopicEM9}, payload \in IngestPayloads :
          MqttReceive(1, topic, payload)
    \/ MqttCheck(1)
    \/ \E topic \in {TopicEM46521, TopicEM9}, payload \in IngestPayloads,
          stage \in FailStages : MqttReceiveFailing(1, topic, payload, stage)

SpecFaults == InitIngest /\ [][NextFaults]_vars

C15_WitnessFailed ==
    /\ lastCall.op = "message_failed"
    /\ lastCall.arg.stage = "check"
    /\ Len(records) = 1
    /\ pc[1] = "idle"

-----------------------------------------------------------------------------
(* Alarm notification: _send_alarm_email inside the evaluation pass *)

EmailRaises_uncaught(sendOk) == ~sendOk

\* _send_alarm_email: try: send_mail(...) except Exception: logger.warning
EmailRaises(sendOk) == FALSE

\* _send_alarm_email(alarm): nothing is sent without ALARM_EMAIL_TO; sendOk is
\* whether sending works
send_alarm_email(alarm, configured, sendOk) ==
    IF ~configured
    THEN [mails |-> <<>>, raised |-> FALSE]
    ELSE [mails |-> <<[alarm |-> alarm, ok |-> sendOk]>>,
          raised |-> EmailRaises(sendOk)]

\* the min or max branch of one iteration with its notification: the row is
\* created and appended to the list before the mail is attempted
NotifyBranch(rows, mails, new, configured, sends) ==
    IF new = <<>>
    THEN [rows |-> rows, mails |-> mails, raised |-> FALSE]
    ELSE LET sent == send_alarm_email(new[1], configured, sends[Len(rows) + 1])
         IN  [rows |-> rows \o new, mails |-> mails \o sent.mails,
              raised |-> sent.raised]

\* "for th in thresholds" with the notifications; an exception ends the loop
RECURSIVE NotifyLoop(_, _, _, _, _, _, _, _, _)
NotifyLoop(al, ths, i, d, parameters, configured, sends, rows, mails) ==
    IF i > Len(ths)
    THEN [rows |-> rows, mails |-> mails, raised |-> FALSE]
    ELSE IF ~HasFloat(parameters, ths[i].parameter_key)
    THEN NotifyLoop(al, ths, i + 1, d, parameters, configured, sends, rows, mails)
    ELSE LET value == ParamFloat(parameters, ths[i].parameter_key)
             min   == NotifyBranch(rows, mails, MinBranch(al \o rows, ths[i], d, value),
                                   configured, sends)
             max   == NotifyBranch(min.rows, min.mails,
                                   MaxBranch(al \o min.rows, ths[i], d, value),
                                   configured, sends)
         IN  IF min.raised THEN min
             ELSE IF max.raised THEN max
             ELSE NotifyLoop(al, ths, i + 1, d, parameters, configured, sends,
                             max.rows, max.mails)

\* check_thresholds_and_create_alarms(device, parameters) with its mails:
\* the rows it has created, the mails it attempted, whether it raised
check_thresholds_notifying(al, ths, d, parameters, configured, sends) ==
    IF DOMAIN parameters = {}
    THEN [rows |-> <<>>, mails |-> <<>>, raised |-> FALSE]
    ELSE NotifyLoop(al, ThresholdsOf(ths, d), 1, d, parameters, configured, sends,
                    <<>>, <<>>)

\* one call of check_thresholds_and_create_alarms; created is the list the
\* caller receives (none when the call raises)
EvaluateNotifying(d, parameters, configured, sends) ==
    /\ UNCHANGED appVars
    /\ LET r == check_thresholds_notifying(alarms, thresholds, d, parameters,
                                           configured, sends)
       IN  /\ Len(alarms) + Len(r.rows) <= MaxAlarms
           /\ alarms' = alarms \o r.rows
           /\ created' = IF r.raised THEN <<>> ELSE r.rows
           /\ lastCall' = Call("evaluate_notify", d, parameters,
                               [mails |-> r.mails, raised |-> r.raised])
           /\ UNCHANGED <<devices, thresholds, records, last_data_received>>
           /\ UNCHANGED <<poolVars, thrVars>>

\* ALARM_EMAIL_TO unset; or set, with every mail sent, none sent, or only
\* the first one failing
MailModes ==
    { [configured |-> FALSE, sends |-> [i \in 1..MaxAlarms |-> TRUE]],
      [configured |-> TRUE, sends |-> [i \in 1..MaxAlarms |-> TRUE]],
      [configured |-> TRUE, sends |-> [i \in 1..MaxAlarms |-> FALSE]],
      [configured |-> TRUE, sends |-> [i \in 1..MaxAlarms |-> i # 1]] }

\* readings below min, above max, and one breaching two thresholds
NotifyParamMaps ==
    { One("v", JNum(1800)), One("v", JNum(2600)),
      [k \in {"v", "a"} |-> IF k = "v" THEN JNum(1800) ELSE JNum(52)] }

NextNotify ==
    \/ \E d \in DeviceIds, parameters \in NotifyParamMaps, mail \in MailModes :
          EvaluateNotifying(d, parameters, mail.configured, mail.sends)
    \/ \E i \in 1..MaxAlarms, ack \in BOOLEAN : Acknowledge(i, ack)

SpecNotify == InitAlarm /\ [][NextNotify]_vars

\* the mails of the step that could not be sent
C16_FailedMails == {i \in DOMAIN lastCall'.arg.mails : ~lastCall'.arg.mails[i].ok}

\* C16: when sending the notification for a newly created alarm fails, the
\* alarm stays persisted and is in the returned list, no exception reaches the
\* caller, and the remaining thresholds of the pass are still evaluated: every
\* threshold of the device that the reading breaches, with no unacknowledged
\* alarm on its key before the pass, has its alarm.
C16_NotificationFailureSwallowed ==
    [][(lastCall'.op = "evaluate_notify" /\ C16_FailedMails # {}) =>
          /\ ~lastCall'.arg.raised
          /\ \A i \in C16_FailedMails :
                /\ \E j \in (Len(alarms) + 1)..Len(alarms') :
                      alarms'[j] = lastCall'.arg.mails[i].alarm
                /\ \E j \in DOMAIN created' :
                      created'[j] = lastCall'.arg.mails[i].alarm
          /\ SubSeq(alarms', 1, Len(alarms)) = alarms
          /\ \A n \in 1..Len(thresholds) :
                LET th == thresholds[n]
                    k  == th.parameter_key
                    p  == lastCall'.parameters
                IN  ( /\ th.device = lastCall'.device
                      /\ k \in DOMAIN p
                      /\ OpenRows(alarms, th.device, k) = {}
                      /\ \/ \E m \in th.min : Reading(p, k) < m
                         \/ \E m \in th.max : Reading(p, k) > m )
                    => AddedRows(th.device, k) # {}
      ]_vars

\* a pass has created two alarms; the mail for the first could not be sent
C16_Witness ==
    /\ lastCall.op = "evaluate_notify"
    /\ Len(lastCall.arg.mails) = 2
    /\ ~lastCall.arg.mails[1].ok
    /\ Len(created) = 2
    /\ Len(alarms) = 2
    /\ created[1] = lastCall.arg.mails[1].alarm
    /\ alarms[1] = created[1] /\ alarms[2] = created[2]

-----------------------------------------------------------------------------
(* The connection test: devices/services.py test_mqtt_connection            *)
(* Thread 1 is the caller of test_mqtt_connection; the callbacks on_connect *)
(* and on_message run on the network loop thread that loop_start creates.   *)

\* messages one test collects
MaxProbeMessages == 2

PrefixEM == <<"E", "M">>

\* f"failed (code: {rc})"
FailedStatus(rc) == IF rc = 5 THEN "failed (code: 5)" ELSE "failed (code: other)"

\* locals of a running test_mqtt_connection, and the state of its client
ProbeLocals(topic_prefix, timeout_seconds) ==
    [topic_prefix |-> topic_prefix, timeout_seconds |-> timeout_seconds,
     messages |-> <<>>, connection_status |-> "disconnected",
     connection_event |-> FALSE, loop |-> TRUE, connected |-> TRUE,
     subscribed |-> FALSE]

\* the dict returned, with the timeout_seconds the call was given, what
\* became of the client, and the time spent in time.sleep
ProbeResult(timeout_seconds, success, status, messages, hws, keys, loop, connected, slept) ==
    [timeout_seconds |-> timeout_seconds, success |-> success,
     connection_status |-> status,
     messages |-> messages, detected_hardware_addresses |-> hws,
     all_parameter_keys |-> keys, loop |-> loop, connected |-> connected,
     slept |-> slept]

\* topic.split('/', 1)[-1] when the topic has a '/', else <<>>
AfterFirstSlash(topic) ==
    LET at == {i \in 1..Len(topic) : topic[i] = "/"}
    IN  IF at = {} THEN <<>>
        ELSE LET first == CHOOSE i \in at : \A j \in at : i <= j
             IN  SubSeq(topic, first + 1, Len(topic))

\* s.isdigit() and len(s) == 5
FiveDigits(s) == IsDigit(s) /\ Len(s) = 5

\* hardware address taken from the topic; <<>> is None
TopicHardwareAddress(topic, topic_prefix) ==
    IF topic_prefix # <<>>
    THEN IF FiveDigits(AfterFirstSlash(topic)) THEN AfterFirstSlash(topic) ELSE <<>>
    ELSE IF FiveDigits(topic) THEN topic ELSE <<>>

\* parsed_payload.get('hardware_address') or parsed_payload.get('hw_addr'),
\* for string values; <<>> is None
PayloadHardwareAddress(parsed) ==
    LET field(k) == IF k \in DOMAIN parsed /\ parsed[k].t = "str" THEN parsed[k].s ELSE <<>>
        hw == IF field("hardware_address") # <<>> THEN field("hardware_address")
              ELSE field("hw_addr")
    IN  IF FiveDigits(hw) THEN hw ELSE <<>>

\* keys of the payload whose value is an int or float, or a string that is
\* digits once one '.' and one '-' are taken out
ProbeParameterKeys(parsed) ==
    {k \in DOMAIN parsed :
        \/ IsIntOrFloat(parsed[k])
        \/ parsed[k].t = "str" /\ LooksNumeric(parsed[k].s)}

\* message_data of on_message
MessageData(topic, payload, parsed, topic_prefix) ==
    [topic |-> topic, raw_payload |-> payload, parsed_payload |-> parsed,
     hardware_address |->
        IF TopicHardwareAddress(topic, topic_prefix) # <<>>
        THEN TopicHardwareAddress(topic, topic_prefix)
        ELSE PayloadHardwareAddress(parsed),
     parameter_keys |-> ProbeParameterKeys(parsed)]

\* the wait reports a connection although the event was never set
EventWait_noDeadline(is_set) == TRUE

\* connection_event.wait(timeout=10): true when the event was set, false
\* when the ten seconds ran out first
EventWait(is_set) == is_set

\* on_message: a JSON document that is not a dict makes the callback return
KeepsPayload(kind) == kind # "nonobject"

\* test_mqtt_connection up to loop_start; a raising connect (or tls_set) goes
\* to the except clause and returns
ProbeStart(t, topic_prefix, timeout_seconds, connectOk) ==
    /\ UNCHANGED appVars
    /\ pc[t] = "idle"
    /\ IF connectOk
       THEN /\ pc' = [pc EXCEPT ![t] = "probe_wait"]
            /\ frame' = [frame EXCEPT ![t] = ProbeLocals(topic_prefix, timeout_seconds)]
            /\ lastCall' = Call("probe_start", 0, EmptyMap, 0)
       ELSE /\ lastCall' = Call("probe_return", 0, EmptyMap,
                                ProbeResult(timeout_seconds, FALSE, "error", <<>>, {}, {},
                                            FALSE, FALSE, 0))
            /\ UNCHANGED thrVars
    /\ UNCHANGED <<dbVars, created, poolVars>>

\* on_connect of the test client, on its loop thread
ProbeOnConnect(t, reason_code) ==
    /\ UNCHANGED appVars
    /\ pc[t] \in {"probe_wait", "probe_expired", "probe_listen"}
    /\ frame[t].loop
    /\ LET rc == ReasonValue(reason_code)
       IN  frame' = [frame EXCEPT ![t] =
              [@ EXCEPT !.connection_status =
                            IF rc = 0 THEN "connected" ELSE FailedStatus(rc),
                        !.subscribed = (rc = 0),
                        !.connection_event = TRUE]]
    /\ lastCall' = Call("probe_connack", 0, EmptyMap, reason_code)
    /\ UNCHANGED <<dbVars, created, poolVars, pc>>

\* on_message of the test client, on its loop thread
ProbeOnMessage(t, topic, payload) ==
    /\ UNCHANGED appVars
    /\ pc[t] \in {"probe_wait", "probe_expired", "probe_listen"}
    /\ frame[t].loop
    /\ frame[t].subscribed
    /\ Len(frame[t].messages) < MaxProbeMessages
    /\ LET parsed == IF payload.kind = "object" THEN payload.data ELSE EmptyMap
       IN  IF KeepsPayload(payload.kind)
           THEN frame' = [frame EXCEPT ![t] =
                   [@ EXCEPT !.messages =
                        Append(@, MessageData(topic, payload, parsed,
                                              frame[t].topic_prefix))]]
           ELSE frame' = frame
    /\ lastCall' = Call("probe_message", 0, EmptyMap, Msg(topic, payload))
    /\ UNCHANGED <<dbVars, created, poolVars, pc>>

\* connection_event.wait(timeout=10) returns, and the test of
\* connection_status after it
ProbeWait(t) ==
    /\ UNCHANGED appVars
    /\ pc[t] = "probe_wait"
    /\ IF ~EventWait(frame[t].connection_event)
       THEN /\ pc' = [pc EXCEPT ![t] = "probe_expired"]
            /\ lastCall' = Call("probe_wait", 0, EmptyMap, FALSE)
            /\ frame' = frame
       ELSE IF frame[t].connection_status # "connected"
       THEN /\ pc' = [pc EXCEPT ![t] = "idle"]
            /\ frame' = [frame EXCEPT ![t] = NoFrame]
            /\ lastCall' = Call("probe_return", 0, EmptyMap,
                                ProbeResult(frame[t].timeout_seconds, FALSE,
                                            frame[t].connection_status,
                                            <<>>, {}, {}, FALSE, FALSE, 0))
       ELSE /\ pc' = [pc EXCEPT ![t] = "probe_listen"]
            /\ lastCall' = Call("probe_wait", 0, EmptyMap, TRUE)
            /\ frame' = frame
    /\ UNCHANGED <<dbVars, created, poolVars>>

\* the timeout branch: loop_stop, disconnect, return
ProbeTimeout(t) ==
    /\ UNCHANGED appVars
    /\ pc[t] = "probe_expired"
    /\ pc' = [pc EXCEPT ![t] = "idle"]
    /\ frame' = [frame EXCEPT ![t] = NoFrame]
    /\ lastCall' = Call("probe_return", 0, EmptyMap,
                        ProbeResult(frame[t].timeout_seconds, FALSE, "timeout",
                                    <<>>, {}, {}, FALSE, FALSE, 0))
    /\ UNCHANGED <<dbVars, created, poolVars>>

\* time.sleep(timeout_seconds) ends: loop_stop, disconnect, the summaries,
\* return
ProbeListenEnd(t) ==
    /\ UNCHANGED appVars
    /\ pc[t] = "probe_listen"
    /\ pc' = [pc EXCEPT ![t] = "idle"]
    /\ frame' = [frame EXCEPT ![t] = NoFrame]
    /\ LET messages == frame[t].messages
           hws  == {messages[i].hardware_address : i \in 1..Len(messages)} \ {<<>>}
           keys == UNION {messages[i].parameter_keys : i \in 1..Len(messages)}
       IN  lastCall' = Call("probe_return", 0, EmptyMap,
                            ProbeResult(frame[t].timeout_seconds, TRUE,
                                        frame[t].connection_status, messages,
                                        hws, keys, FALSE, FALSE,
                                        frame[t].timeout_seconds))
    /\ UNCHANGED <<dbVars, created, poolVars>>

ProbeTopics == {TopicEM46521, TopicEM9}

\* {"v": 180}, {"hw_addr": "46522", "v": "abc"}, a JSON list, text that is
\* not JSON
ProbePayloads ==
    { Payload("object", One("v", JNum(1800))),
      Payload("object", [k \in {"hw_addr", "v"} |->
                            IF k = "v" THEN JStr(Sabc)
                            ELSE JStr(<<"4", "6", "5", "2", "2">>)]),
      Payload("nonobject", EmptyMap),
      Payload("invalid", EmptyMap) }

InitProbe ==
    /\ devices = PlainDevices
    /\ thresholds = <<>>
    /\ alarms = <<>>
    /\ records = <<>>
    /\ last_data_received = [d \in DeviceIds |-> 0]
    /\ created = <<>>
    /\ lastCall = NoCall
    /\ EmptyPool
    /\ NoThreads
    /\ NoSubscriber

NextProbe ==
    \/ \E topic_prefix \in {PrefixEM, <<>>}, timeout_seconds \in {15, 60},
          connectOk \in BOOLEAN :
          ProbeStart(1, topic_prefix, timeout_seconds, connectOk)
    \/ \E reason_code \in ReasonCodes : ProbeOnConnect(1, reason_code)
    \/ \E topic \in ProbeTopics, payload \in ProbePayloads :
          ProbeOnMessage(1, topic, payload)
    \/ ProbeWait(1)
    \/ ProbeTimeout(1)
    \/ ProbeListenEnd(1)

SpecProbe == InitProbe /\ [][NextProbe]_vars

\* C17: when the ten-second wait for the connection acknowledgment ends with
\* no acknowledgment received, test_mqtt_connection goes to its timeout
\* branch whatever happens next: it never enters the listen window, and it
\* returns success=false, connection_status "timeout", empty message,
\* hardware-address and parameter-key lists, with the loop stopped and the
\* client disconnected and no time slept, whatever timeout_seconds is; no
\* other return carries the status "timeout".
C17_ConnectTimeoutFailsFast ==
    [][/\ (pc[1] = "probe_wait" /\ ~frame[1].connection_event /\ pc'[1] # "probe_wait")
          => pc'[1] = "probe_expired"
       /\ (pc[1] = "probe_expired" /\ pc'[1] # "probe_expired")
          => /\ lastCall'.op = "probe_return"
             /\ ~lastCall'.arg.success
             /\ lastCall'.arg.connection_status = "timeout"
             /\ lastCall'.arg.messages = <<>>
             /\ lastCall'.arg.detected_hardware_addresses = {}
             /\ lastCall'.arg.all_parameter_keys = {}
             /\ ~lastCall'.arg.loop
             /\ ~lastCall'.arg.connected
             /\ lastCall'.arg.slept = 0
             /\ pc'[1] = "idle"
       /\ (pc'[1] # pc[1] /\ lastCall'.op = "probe_return"
             /\ lastCall'.arg.connection_status = "timeout")
          => pc[1] = "probe_expired"
      ]_vars

\* a test asked to listen for 60 seconds has returned the timeout result
C17_Witness ==
    /\ lastCall.op = "probe_return"
    /\ lastCall.arg.timeout_seconds = 60
    /\ lastCall.arg.slept = 0
    /\ lastCall.arg.connection_status = "timeout"
    /\ ~lastCall.arg.success
    /\ lastCall.arg.messages = <<>>
    /\ pc[1] = "idle"

\* C18: every message delivered to on_message is appended to the message
\* list, with its topic and raw payload, whatever the payload is, and the
\* list returned at the end of the listen window is that list.
C18_EveryDeliveredMessageReturned ==
    [][/\ lastCall'.op = "probe_message"
          => /\ Len(frame'[1].messages) = Len(frame[1].messages) + 1
             /\ frame'[1].messages[Len(frame'[1].messages)].topic = lastCall'.arg.topic
             /\ frame'[1].messages[Len(frame'[1].messages)].raw_payload = lastCall'.arg.payload
       /\ (pc[1] = "probe_listen" /\ pc'[1] = "idle")
          => lastCall'.arg.messages = frame[1].messages
      ]_vars

-----------------------------------------------------------------------------
(* The subscriber supervisor: devices/apps.py DevicesConfig                 *)
(* Each thread of Threads is a caller of _start_mqtt_subscriber (the Timer  *)
(* thread that ready() starts, or any other caller).                        *)

\* Thread objects one process makes
MaxSubscriberThreads == 3

\* the lock excludes nobody
LockFree_always(holder) == TRUE

\* the with statement enters when the lock is free
LockFree(holder) == holder = 0

\* Thread.is_alive(): run_subscriber has not returned
IsAlive(position) == position # "dead"

\* self._mqtt_thread is not None and self._mqtt_thread.is_alive()
AlreadyRunning(thread, started) == thread # 0 /\ IsAlive(started[thread])

\* with self._mqtt_thread_lock: the caller acquires the lock
StartAcquire(t) ==
    /\ pc[t] = "idle"
    /\ LockFree(mqtt_thread_lock)
    /\ mqtt_thread_lock' = t
    /\ pc' = [pc EXCEPT ![t] = "start_check"]
    /\ lastCall' = Call("start_acquire", 0, EmptyMap, t)
    /\ UNCHANGED <<dbVars, created, poolVars, frame, mqtt_thread, threads>>

\* the test of the stored thread; when it is alive the call returns and the
\* with statement releases the lock
StartCheck(t) ==
    /\ pc[t] = "start_check"
    /\ IF AlreadyRunning(mqtt_thread, threads)
       THEN /\ pc' = [pc EXCEPT ![t] = "idle"]
            /\ mqtt_thread_lock' = 0
            /\ lastCall' = Call("start_return", 0, EmptyMap,
                                [thread |-> t, started |-> 0])
       ELSE /\ pc' = [pc EXCEPT ![t] = "start_thread"]
            /\ mqtt_thread_lock' = mqtt_thread_lock
            /\ lastCall' = Call("start_check", 0, EmptyMap, t)
    /\ UNCHANGED <<dbVars, created, poolVars, frame, mqtt_thread, threads>>

\* thread = threading.Thread(target=run_subscriber, ...); thread.start()
StartThread(t) ==
    /\ pc[t] = "start_thread"
    /\ Len(threads) < MaxSubscriberThreads
    /\ threads' = Append(threads, "waiting")
    /\ frame' = [frame EXCEPT ![t] = Frame(0, EmptyMap, Len(threads) + 1, <<>>)]
    /\ pc' = [pc EXCEPT ![t] = "start_store"]
    /\ lastCall' = Call("start_thread", 0, EmptyMap, t)
    /\ UNCHANGED <<dbVars, created, poolVars, mqtt_thread, mqtt_thread_lock>>

\* self._mqtt_thread = thread; the with statement releases the lock
StartStore(t) ==
    /\ pc[t] = "start_store"
    /\ mqtt_thread' = frame[t].i
    /\ mqtt_thread_lock' = 0
    /\ pc' = [pc EXCEPT ![t] = "idle"]
    /\ frame' = [frame EXCEPT ![t] = NoFrame]
    /\ lastCall' = Call("start_return", 0, EmptyMap,
                        [thread |-> t, started |-> frame[t].i])
    /\ UNCHANGED <<dbVars, created, poolVars, threads>>

\* Device.objects.filter(is_active=True, mqtt_broker_host__isnull=False)
\*     .exclude(mqtt_broker_host='')
devices_with_mqtt(devs) ==
    {d \in DOMAIN devs : devs[d].is_active /\ devs[d].mqtt_broker_host # ""}

\* run_subscriber after its time.sleep(2): with devices that have a broker
\* it goes on to the reconciliation loop, without any to the global
\* configuration command
SubscriberRun(n) ==
    /\ n \in DOMAIN threads
    /\ threads[n] = "waiting"
    /\ threads' = [threads EXCEPT ![n] =
                      IF Cardinality(devices_with_mqtt(devices)) > 0
                      THEN "loop" ELSE "fallback"]
    /\ lastCall' = Call("subscriber_run", 0, EmptyMap, n)
    /\ UNCHANGED <<dbVars, created, poolVars, thrVars, mqtt_thread, mqtt_thread_lock>>

\* run_subscriber returns: its outer except caught an error, or the fallback
\* command came back
SubscriberExit(n) ==
    /\ n \in DOMAIN threads
    /\ IsAlive(threads[n])
    /\ threads' = [threads EXCEPT ![n] = "dead"]
    /\ lastCall' = Call("subscriber_exit", 0, EmptyMap, n)
    /\ UNCHANGED <<dbVars, created, poolVars, thrVars, mqtt_thread, mqtt_thread_lock>>

StartupConfigs ==
    { Device(TRUE, <<>>, TopicEM46521, "h1", 1883),
      Device(TRUE, <<>>, TopicEM46521, "", 1883) }

InitStartup ==
    /\ devices \in [DeviceIds -> StartupConfigs]
    /\ thresholds = <<>>
    /\ alarms = <<>>
    /\ records = <<>>
    /\ last_data_received = [d \in DeviceIds |-> 0]
    /\ created = <<>>
    /\ lastCall = NoCall
    /\ EmptyPool
    /\ NoThreads
    /\ NoSubscriber

NextStartup ==
    \/ \E t \in Threads : StartAcquire(t)
    \/ \E t \in Threads : StartCheck(t)
    \/ \E t \in Threads : StartThread(t)
    \/ \E t \in Threads : StartStore(t)
    \/ \E n \in 1..MaxSubscriberThreads : SubscriberRun(n)
    \/ \E n \in 1..MaxSubscriberThreads : SubscriberExit(n)

SpecStartup == InitStartup /\ [][NextStartup]_vars

\* C19: at most one mqtt-subscriber thread is alive in every state, whatever
\* the interleaving of the callers of _start_mqtt_subscriber.
C19_AtMostOneSubscriberThread ==
    Cardinality({n \in 1..Len(threads) : threads[n] # "dead"}) <= 1

\* a second caller has found the subscriber thread alive and returned
\* without starting one
C19_Witness ==
    /\ lastCall.op = "start_return"
    /\ lastCall.arg.started = 0
    /\ Len(threads) = 1
    /\ threads[1] = "loop"
    /\ mqtt_thread = 1

\* a thread that died has been replaced: the second thread is the only one alive
C19_WitnessRestarted ==
    /\ Len(threads) = 2
    /\ threads[1] = "dead"
    /\ threads[2] # "dead"
    /\ mqtt_thread = 2
    /\ mqtt_thread_lock = 0

-----------------------------------------------------------------------------
(* Resolution by hardware-address suffix                                    *)

\* topic ends with the hardware address hw
C23_EndsWithHw(topic, hw) ==
    /\ Len(hw) > 0
    /\ Len(topic) >= Len(hw)
    /\ \A i \in 1..Len(hw) : topic[Len(topic) - Len(hw) + i] = hw[i]

\* no topic-map entry of an active device, and no active device whose pattern
\* equals the topic or matches it by trailing wildcard
C23_NoEarlierMatch(topic) ==
    /\ ~ \E d \in DOMAIN devices :
            /\ devices[d].is_active
            /\ topic \in DOMAIN device_topic_map
            /\ device_topic_map[topic] = d
    /\ \A d \in DOMAIN devices :
          (devices[d].is_active /\ devices[d].mqtt_topic_pattern # <<>>) =>
             LET pat == devices[d].mqtt_topic_pattern
             IN  /\ pat # topic
                 /\ ~ ( /\ pat[Len(pat)] = "+"
                        /\ Len(topic) >= Len(pat) - 1
                        /\ \A i \in 1..(Len(pat) - 1) : topic[i] = pat[i] )

\* C23: a message whose topic has no topic-map, exact-pattern or wildcard
\* match and ends with the hardware address of an active device resolves to
\* a device with that hardware address, whether or not the device has a topic
\* pattern and however many devices are active.
C23_SuffixResolvesToAddressedDevice ==
    [][\A d \in DOMAIN devices :
         ( /\ ReceivesMessage
           /\ C23_NoEarlierMatch(lastCall'.arg.topic)
           /\ devices[d].is_active
           /\ C23_EndsWithHw(lastCall'.arg.topic, devices[d].hardware_address) )
         => /\ lastCall'.device \in DOMAIN devices
            /\ C23_EndsWithHw(lastCall'.arg.topic,
                              devices[lastCall'.device].hardware_address)
      ]_vars

-----------------------------------------------------------------------------
(* Threshold configuration: alerts/serializers.py, alerts/views.py          *)

\* Threshold rows the table holds
MaxThresholds == 2

\* attrs.get(name): None is the empty set
AttrGet(attrs, name) == IF name \in DOMAIN attrs THEN attrs[name] ELSE {}

\* ThresholdSerializer.validate(attrs): attrs holds the supplied fields only
ValidateThreshold(row, attrs) ==
    LET min_val == AttrGet(attrs, "min")
        max_val == AttrGet(attrs, "max")
    IN  /\ ~(min_val = {} /\ max_val = {})
        /\ ~ \E lo \in min_val, hi \in max_val : lo > hi

\* position of a parameter key in the ordering of strings
KeyRank(key) == IF key = "a" THEN 1 ELSE 2

\* Meta.ordering = ['device', 'parameter_key']
ThresholdBefore(r, s) ==
    \/ r.device < s.device
    \/ r.device = s.device /\ KeyRank(r.parameter_key) < KeyRank(s.parameter_key)

\* the table with one more row, in the ordering of the model
InsertThreshold(ths, row) ==
    LET before == SelectSeq(ths, LAMBDA r : ThresholdBefore(r, row))
        after  == SelectSeq(ths, LAMBDA r : ~ThresholdBefore(r, row))
    IN  before \o <<row>> \o after

\* a row with no limits, before the supplied fields are set
BlankThreshold(d, key) == Th(d, key, {}, {})

\* ModelSerializer.update / create: setattr for each supplied field
ApplyAttrs(row, attrs) ==
    [row EXCEPT !.min = IF "min" \in DOMAIN attrs THEN attrs["min"] ELSE @,
                !.max = IF "max" \in DOMAIN attrs THEN attrs["max"] ELSE @]

\* POST thresholds/: ThresholdListView.create by an admin
ThresholdCreate(d, key, attrs) ==
    /\ UNCHANGED appVars
    /\ Len(thresholds) < MaxThresholds
    /\ LET ok == /\ ValidateThreshold(BlankThreshold(d, key), attrs)
                 /\ ~ \E i \in 1..Len(thresholds) :
                        /\ thresholds[i].device = d
                        /\ thresholds[i].parameter_key = key
       IN  /\ thresholds' = IF ok
                            THEN InsertThreshold(thresholds,
                                                 ApplyAttrs(BlankThreshold(d, key), attrs))
                            ELSE thresholds
           /\ lastCall' = Call("threshold_create", d, EmptyMap,
                               [key |-> key, attrs |-> attrs, ok |-> ok])
    /\ UNCHANGED <<devices, alarms, records, last_data_received, created>>
    /\ UNCHANGED <<poolVars, thrVars>>

\* PUT or PATCH thresholds/<id>/: ThresholdDetailView.update by an admin;
\* PUT also carries device and parameter_key, here those of the row
ThresholdUpdate(i, attrs, partial) ==
    /\ UNCHANGED appVars
    /\ i \in 1..Len(thresholds)
    /\ LET ok == ValidateThreshold(thresholds[i], attrs)
       IN  /\ thresholds' = IF ok
                            THEN [thresholds EXCEPT ![i] = ApplyAttrs(@, attrs)]
                            ELSE thresholds
           /\ lastCall' = Call("threshold_update", thresholds[i].device, EmptyMap,
                               [key |-> thresholds[i].parameter_key, attrs |-> attrs,
                                partial |-> partial, ok |-> ok])
    /\ UNCHANGED <<devices, alarms, records, last_data_received, created>>
    /\ UNCHANGED <<poolVars, thrVars>>

\* DELETE thresholds/<id>/: ThresholdDetailView.destroy by an admin
ThresholdDestroy(i) ==
    /\ UNCHANGED appVars
    /\ i \in 1..Len(thresholds)
    /\ thresholds' = SelectSeq(thresholds, LAMBDA r : r # thresholds[i])
    /\ lastCall' = Call("threshold_destroy", thresholds[i].device, EmptyMap, i)
    /\ UNCHANGED <<devices, alarms, records, last_data_received, created>>
    /\ UNCHANGED <<poolVars, thrVars>>

\* a limit as the request carries it: null, 200 or 250
LimitChoices == {{}, {2000}, {2500}}

\* the min and max fields a request supplies: any part of the two
ThresholdAttrs ==
    UNION {[fields -> LimitChoices] : fields \in SUBSET {"min", "max"}}

InitThreshold ==
    /\ devices = PlainDevices
    /\ thresholds = <<>>
    /\ alarms = <<>>
    /\ records = <<>>
    /\ last_data_received = [d \in DeviceIds |-> 0]
    /\ created = <<>>
    /\ lastCall = NoCall
    /\ EmptyPool
    /\ NoThreads
    /\ NoSubscriber

NextThreshold ==
    \/ \E d \in DeviceIds, key \in Keys, attrs \in ThresholdAttrs :
          ThresholdCreate(d, key, attrs)
    \/ \E i \in 1..MaxThresholds, attrs \in ThresholdAttrs, partial \in BOOLEAN :
          ThresholdUpdate(i, attrs, partial)
    \/ \E i \in 1..MaxThresholds : ThresholdDestroy(i)

SpecThreshold == InitThreshold /\ [][NextThreshold]_vars

\* C24: every stored Threshold has a min or a max, and min <= max when it
\* has both, after any sequence of create, update and partial update.
C24_StoredThresholdsWellFormed ==
    \A i \in 1..Len(thresholds) :
        /\ thresholds[i].min # {} \/ thresholds[i].max # {}
        /\ \A lo \in thresholds[i].min, hi \in thresholds[i].max : lo <= hi

-----------------------------------------------------------------------------
(* Types of the stored parameter values                                     *)

\* C25: every value of the parameter map of every TelemetryRecord stored by
\* the MQTT handler is a number; booleans, null, arrays, objects and
\* non-numeric strings of the payload are never persisted.
C25_StoredValuesAreNumbers ==
    \A i \in 1..Len(records) :
        \A k \in DOMAIN records[i].parameters :
            records[i].parameters[k].t = "num"

-----------------------------------------------------------------------------
(* One alarm per parameter and pass                                         *)

\* the thresholds of device d on key whose limits the value breaches both
C27_BothBreached(d, key, value) ==
    {n \in 1..Len(thresholds) :
        /\ thresholds[n].device = d
        /\ thresholds[n].parameter_key = key
        /\ \E lo \in thresholds[n].min : value < lo
        /\ \E hi \in thresholds[n].max : value > hi}

\* C27: one sequential evaluation pass adds at most one alarm for each
\* (device, parameter_key); when the value breaches both limits of a
\* threshold whose min exceeds its max and no alarm is open, the one alarm
\* added is the min alarm.
C27_OneAlarmPerParameterAndPass ==
    [][lastCall'.op = "evaluate" =>
         \A d \in DeviceIds, k \in Keys :
            /\ Cardinality(AddedRows(d, k)) <= 1
            /\ ( /\ d = lastCall'.device
                 /\ k \in DOMAIN lastCall'.parameters
                 /\ OpenRows(alarms, d, k) = {}
                 /\ C27_BothBreached(d, k, Reading(lastCall'.parameters, k)) # {} )
               => \E i \in AddedRows(d, k) :
                     /\ alarms'[i].type = "min"
                     /\ \A j \in AddedRows(d, k) : j = i
      ]_vars

\* 230 has been evaluated against min 250 / max 200: one min alarm, no max
C27_Witness ==
    /\ lastCall.op = "evaluate"
    /\ lastCall.device = 1
    /\ thresholds = <<Th(1, "v", {2500}, {2000})>>
    /\ lastCall.parameters = One("v", JNum(2300))
    /\ Len(alarms) = 1
    /\ alarms[1].type = "min"
    /\ alarms[1].value = 2300
    /\ alarms[1].threshold = 2500
    /\ created = alarms

-----------------------------------------------------------------------------
(* Evaluation over maps with values of every type                           *)

S180 == <<"1", "8", "0">>

\* parameter maps as POST device-data and the MQTT handler hand them over:
\* numbers below, at, between and above the limits 200 and 250, a numeric
\* string, a non-numeric string, null, a boolean
EvaluateParamMaps ==
    { One("v", JNum(1800)), One("v", JNum(2000)), One("v", JNum(2500)),
      One("v", JNum(2600)), One("a", JNum(52)), One("v", JStr(S180)),
      One("v", JStr(Sabc)), One("v", JNull), One("v", JBool(TRUE)) }

NextEvaluate ==
    \/ \E d \in DeviceIds, parameters \in EvaluateParamMaps : Evaluate(d, parameters)
    \/ \E i \in 1..MaxAlarms, ack \in BOOLEAN : Acknowledge(i, ack)

SpecEvaluate == InitAlarm /\ [][NextEvaluate]_vars

\* the value of key is a number or a string of numeric form
C26_Numeric(parameters, key) ==
    /\ key \in DOMAIN parameters
    /\ \/ parameters[key].t = "num"
       \/ parameters[key].t = "str" /\ C7_NumericForm(parameters[key].s)

\* that number, in tenths
C26_Value(parameters, key) ==
    IF parameters[key].t = "num" THEN parameters[key].n
    ELSE IF parameters[key].s = S180 THEN 1800 ELSE C7_NumberOf(parameters[key].s)

\* the thresholds of device d on key that the value of the map breaches
C26_Breached(d, key, parameters) ==
    {n \in 1..Len(thresholds) :
        /\ thresholds[n].device = d
        /\ thresholds[n].parameter_key = key
        /\ C26_Numeric(parameters, key)
        /\ \/ \E lo \in thresholds[n].min : C26_Value(parameters, key) < lo
           \/ \E hi \in thresholds[n].max : C26_Value(parameters, key) > hi}

\* C26: an evaluation pass for a device with no unacknowledged alarm adds an
\* alarm for key k exactly when the device has a threshold on k, the map has a
\* numeric value for k and the value is below min or above max; the alarm
\* has type min with limit min, or type max with limit max, and the value;
\* nothing is added for any other device.
C26_AlarmIffBreach ==
    [][( /\ lastCall'.op = "evaluate"
         /\ \A k \in Keys : OpenRows(alarms, lastCall'.device, k) = {} )
       => LET d == lastCall'.device
              parameters == lastCall'.parameters
          IN  /\ \A k \in Keys :
                    AddedRows(d, k) # {} <=> C26_Breached(d, k, parameters) # {}
              /\ \A i \in (Len(alarms) + 1)..Len(alarms') :
                    /\ alarms'[i].device = d
                    /\ \E n \in C26_Breached(d, alarms'[i].parameter_key, parameters) :
                          LET v == C26_Value(parameters, alarms'[i].parameter_key)
                          IN  /\ alarms'[i].value = v
                              /\ \/ /\ alarms'[i].type = "min"
                                    /\ \E lo \in thresholds[n].min :
                                          v < lo /\ alarms'[i].threshold = lo
                                 \/ /\ alarms'[i].type = "max"
                                    /\ \E hi \in thresholds[n].max :
                                          v > hi /\ alarms'[i].threshold = hi
      ]_vars

-----------------------------------------------------------------------------
(* Bookkeeping follows the result of the subscribe call                     *)

\* the topics remembered for broker bk; none when the broker has no entry
C30_Topics(st, bk) == IF bk \in DOMAIN st THEN st[bk] ELSE {}

C30_Brokers == DOMAIN subscribed_topics \cup DOMAIN subscribed_topics'

\* the step has made one more call on a client, and this is it
C30_NewCall == brokerCalls'[Len(brokerCalls')]

C30_Broker(d) ==
    <<devices[d].mqtt_broker_host,
      IF devices[d].mqtt_broker_port = 0 THEN 1883 ELSE devices[d].mqtt_broker_port>>

\* C30: subscribe_device adds a topic to a broker's topic set only in a call
\* whose broker subscribe for that topic reported success, and maps a topic
\* to the device only when the topic is then in the topic set of the
\* device's broker; a call whose subscribe failed leaves every topic set and
\* the topic map as they were, and the next subscribe_device call for the
\* same device issues the subscribe again.
C30_BookkeepingOnlyOnSuccess ==
    [][lastCall'.op = "subscribe" =>
         /\ \A bk \in C30_Brokers :
               \A topic \in C30_Topics(subscribed_topics', bk) \ C30_Topics(subscribed_topics, bk) :
                  /\ Len(brokerCalls') > Len(brokerCalls)
                  /\ C30_NewCall = [op |-> "subscribe", client |-> clients'[bk],
                                    topic |-> topic, ok |-> TRUE]
         /\ \A topic \in DOMAIN device_topic_map' :
               (topic \notin DOMAIN device_topic_map
                  \/ device_topic_map'[topic] # device_topic_map[topic])
               => /\ device_topic_map'[topic] = lastCall'.device
                  /\ topic \in C30_Topics(subscribed_topics', C30_Broker(lastCall'.device))
         /\ ( /\ Len(brokerCalls') > Len(brokerCalls)
              /\ C30_NewCall.op = "subscribe"
              /\ ~C30_NewCall.ok )
            => /\ \A bk \in C30_Brokers :
                     C30_Topics(subscribed_topics', bk) = C30_Topics(subscribed_topics, bk)
               /\ device_topic_map' = device_topic_map
         /\ ( /\ lastCall.op = "subscribe"
              /\ lastCall.arg = "subscribe_failed"
              /\ lastCall'.device = lastCall.device )
            => /\ Len(brokerCalls') = Len(brokerCalls) + 1
               /\ C30_NewCall.op = "subscribe"
               /\ C30_NewCall.topic = devices[lastCall.device].mqtt_topic_pattern
               /\ C30_NewCall.client.key = C30_Broker(lastCall.device)
      ]_vars

\* a subscribe that failed left nothing behind, and the next call for the
\* same device issued it again and succeeded
C30_Witness ==
    /\ lastCall.op = "subscribe"
    /\ lastCall.arg = "subscribed"
    /\ Len(brokerCalls) = 3
    /\ brokerCalls[2].op = "subscribe"
    /\ ~brokerCalls[2].ok
    /\ brokerCalls[3].op = "subscribe"
    /\ brokerCalls[3].ok
    /\ brokerCalls[3].topic = brokerCalls[2].topic
    /\ brokerCalls[3].client = brokerCalls[2].client
    /\ DOMAIN device_topic_map = {brokerCalls[3].topic}
    /\ device_topic_map[brokerCalls[3].topic] = lastCall.device

-----------------------------------------------------------------------------
(* Devices that share a topic                                               *)

C29_Broker(d) ==
    <<devices[d].mqtt_broker_host,
      IF devices[d].mqtt_broker_port = 0 THEN 1883 ELSE devices[d].mqtt_broker_port>>

\* the active devices other than d that have d's topic pattern on d's broker
C29_Sharing(d) ==
    {e \in DOMAIN devices \ {d} :
        /\ devices[e].is_active
        /\ devices[e].mqtt_broker_host # ""
        /\ devices[e].mqtt_topic_pattern # <<>>
        /\ devices[e].mqtt_topic_pattern = devices[d].mqtt_topic_pattern
        /\ C29_Broker(e) = C29_Broker(d)}

\* C29: unsubscribe_device(d1) leaves a topic that another active device
\* with the same pattern on the same broker is subscribed with in the
\* broker's topic set and in the topic map, and sends no unsubscribe for it.
C29_SharedTopicSurvivesUnsubscribe ==
    [][\A d \in DOMAIN devices :
         ( /\ lastCall'.op = "unsubscribe"
           /\ lastCall'.device = d
           /\ C29_Sharing(d) # {}
           /\ C29_Broker(d) \in DOMAIN subscribed_topics
           /\ devices[d].mqtt_topic_pattern \in subscribed_topics[C29_Broker(d)]
           /\ devices[d].mqtt_topic_pattern \in DOMAIN device_topic_map )
         => /\ devices[d].mqtt_topic_pattern \in subscribed_topics'[C29_Broker(d)]
            /\ devices[d].mqtt_topic_pattern \in DOMAIN device_topic_map'
            /\ brokerCalls' = brokerCalls
      ]_vars

-----------------------------------------------------------------------------
(* Messages of several brokers: on_message of each client runs the one      *)
(* _handle_message of the manager                                           *)

\* the broker of the connection delivers the topic: one of the patterns
\* subscribed on it matches
Delivers(st, bk, topic) ==
    /\ bk \in DOMAIN st
    /\ \E pattern \in st[bk] : pattern = topic \/ WildcardMatch(pattern, topic)

\* on_message(client, userdata, msg) of the client made for broker
\* client.key: self._handle_message(msg), up to the threshold check
OnMessage(t, client, topic, payload) ==
    /\ UNCHANGED appVars
    /\ pc[t] = "idle"
    /\ client \in live
    /\ Delivers(subscribed_topics, client.key, topic)
    /\ LET d == ResolveDevice(topic, device_topic_map, devices)
           parameters == IF payload.kind = "object" THEN Normalize(payload.data)
                         ELSE EmptyMap
           stores == d # 0 /\ payload.kind = "object" /\ DOMAIN parameters # {}
       IN  /\ lastCall' = Call("on_message", d, parameters,
                               [client |-> client, topic |-> topic, payload |-> payload])
           /\ IF stores
              THEN /\ Len(records) < MaxRecords
                   /\ records' = Append(records, DataRow(d, parameters))
                   /\ last_data_received' =
                          [last_data_received EXCEPT ![d] = Len(records) + 1]
                   /\ pc' = [pc EXCEPT ![t] = "mqtt_check"]
                   /\ frame' = [frame EXCEPT ![t] = Frame(d, parameters, 0, <<>>)]
              ELSE UNCHANGED <<records, last_data_received, pc, frame>>
    /\ UNCHANGED <<devices, thresholds, alarms, created, poolVars>>

\* every device subscribed, each broker with its client; a topic that several
\* devices use is mapped to the one subscribed last, which can be any of them
InitBrokers ==
    /\ devices \in [DeviceIds -> ConcConfigs]
    /\ clients = [bk \in {DeviceBrokerKey(devices[d]) : d \in DeviceIds} |->
                     Client(IF bk = Broker1 THEN 1 ELSE 2, bk)]
    /\ live = {clients[bk] : bk \in DOMAIN clients}
    /\ subscribed_topics =
          [bk \in DOMAIN clients |->
              {devices[d].mqtt_topic_pattern :
                  d \in {x \in DeviceIds : DeviceBrokerKey(devices[x]) = bk}}]
    /\ device_topic_map \in
          { m \in [{devices[d].mqtt_topic_pattern : d \in DeviceIds} -> DeviceIds] :
              \A topic \in DOMAIN m : devices[m[topic]].mqtt_topic_pattern = topic }
    /\ brokerCalls = <<>>
    /\ thresholds = ResolveThresholds
    /\ alarms = <<>>
    /\ records = <<>>
    /\ last_data_received = [d \in DeviceIds |-> 0]
    /\ created = <<>>
    /\ lastCall = NoCall
    /\ NoThreads
    /\ NoSubscriber

NextBrokers ==
    \/ \E client \in live, topic \in Topics, payload \in ResolvePayloads :
          OnMessage(1, client, topic, payload)
    \/ MqttCheck(1)
    \/ \E i \in 1..MaxAlarms, ack \in BOOLEAN : Acknowledge(i, ack)

SpecBrokers == InitBrokers /\ [][NextBrokers]_vars

C28_Broker(d) ==
    <<devices[d].mqtt_broker_host,
      IF devices[d].mqtt_broker_port = 0 THEN 1883 ELSE devices[d].mqtt_broker_port>>

\* two active devices on different brokers are subscribed with this topic
C28_SharedAcrossBrokers(topic) ==
    \E a \in DOMAIN devices, b \in DOMAIN devices :
        /\ C28_Broker(a) # C28_Broker(b)
        /\ \A d \in {a, b} :
              /\ devices[d].is_active
              /\ devices[d].mqtt_topic_pattern = topic
              /\ C28_Broker(d) \in DOMAIN subscribed_topics
              /\ topic \in subscribed_topics[C28_Broker(d)]

\* C28: when two active devices on different brokers are subscribed with the
\* same topic string, a message that arrives on the connection of one broker
\* is stored, if at all, for a device configured for that broker.
C28_MessageStaysWithItsBroker ==
    [][( /\ lastCall'.op = "on_message"
         /\ C28_SharedAcrossBrokers(lastCall'.arg.topic)
         /\ Len(records') > Len(records) )
       => C28_Broker(records'[Len(records')].device) = lastCall'.arg.client.key
      ]_vars

-----------------------------------------------------------------------------
\* The mqtt-subscriber thread as the supervisor of the subscriptions:
\* run_subscriber after ready() has started it, and what follows its choice

\* every client.connect and client.subscribe of a pass works: the brokers
\* are reachable
AllReachable == [d \in DeviceIds |-> [connectOk |-> TRUE, subscribeOk |-> TRUE]]

\* manager.subscribe_all_devices() before and inside run_subscriber's
\* while True loop, reached only on the device_count > 0 branch
SweepRuns(position) == position = "loop"

\* one manager.subscribe_all_devices() of the reconciliation loop
Sweep(n) ==
    /\ n \in DOMAIN threads
    /\ SweepRuns(threads[n])
    /\ \E r \in {subscribe_all_devices(ThePool, AllReachable)} :
          /\ SetPool(r.pool)
          /\ lastCall' = Call("sweep", 0, EmptyMap, n)
    /\ UNCHANGED <<dbVars, created, thrVars, appVars>>

\* call_command('run_mqtt_subscriber') on the device_count == 0 branch:
\* Command.handle subscribes once when devices have appeared since the
\* count and then only sleeps, otherwise it serves the global broker
FallbackCommand(n) ==
    /\ n \in DOMAIN threads
    /\ threads[n] = "fallback"
    /\ \E found \in {Cardinality(devices_with_mqtt(devices)) > 0},
          r \in {subscribe_all_devices(ThePool, AllReachable)} :
          /\ threads' = [threads EXCEPT ![n] =
                            IF found THEN "sleeping" ELSE "global"]
          /\ IF found THEN SetPool(r.pool) ELSE UNCHANGED poolVars
          /\ lastCall' = Call("fallback_command", 0, EmptyMap, n)
    /\ UNCHANGED <<dbVars, created, thrVars, mqtt_thread, mqtt_thread_lock>>

\* Device rows a save can write: two brokers, and a row without a broker
SupervisorConfigs ==
    { Device(TRUE, <<>>, TopicEM46521, "h1", 1883),
      Device(TRUE, <<>>, TopicEM46521, "h2", 1883),
      Device(TRUE, <<>>, TopicEM46521, "", 1883) }

\* ready() has made and started the thread; the rows of the table are any
InitSupervisor ==
    /\ devices \in [DeviceIds -> SupervisorConfigs]
    /\ thresholds = <<>>
    /\ alarms = <<>>
    /\ records = <<>>
    /\ last_data_received = [d \in DeviceIds |-> 0]
    /\ created = <<>>
    /\ lastCall = NoCall
    /\ EmptyPool
    /\ NoThreads
    /\ mqtt_thread = 1
    /\ mqtt_thread_lock = 0
    /\ threads = <<"waiting">>

NextSupervisor ==
    \/ SubscriberRun(1)
    \/ Sweep(1)
    \/ FallbackCommand(1)
    \/ \E d \in DeviceIds, row \in SupervisorConfigs, connectOk, subscribeOk \in BOOLEAN :
          SaveDevice(d, row, connectOk, subscribeOk)

\* the thread is scheduled: its time.sleep calls return and each of its
\* steps is taken
SpecSupervisor ==
    /\ InitSupervisor
    /\ [][NextSupervisor]_vars
    /\ WF_vars(SubscriberRun(1))
    /\ WF_vars(Sweep(1))
    /\ WF_vars(FallbackCommand(1))

C21_Eligible(d) ==
    /\ devices[d].is_active
    /\ devices[d].mqtt_broker_host # ""
    /\ devices[d].mqtt_topic_pattern # <<>>

C21_Subscribed(d) ==
    LET bk == <<devices[d].mqtt_broker_host, devices[d].mqtt_broker_port>>
    IN  /\ bk \in DOMAIN subscribed_topics
        /\ devices[d].mqtt_topic_pattern \in subscribed_topics[bk]

\* C21: with the subscriber thread started and scheduled fairly and the
\* brokers reachable for every sweep, a device that is active with broker
\* host and topic pattern set has its topic subscribed eventually (or stops
\* being such a device), whatever the rows were when the thread started and
\* whether or not the subscribe made by the save worked.
C21_EventuallySubscribedBySweep ==
    \A d \in DeviceIds :
        C21_Eligible(d) ~> (C21_Subscribed(d) \/ ~C21_Eligible(d))

-----------------------------------------------------------------------------
(* on_connect running in the network thread of its client while the other   *)
(* threads call subscribe_device and unsubscribe_device: one step for the   *)
(* copy of the topic set, one step per client.subscribe of the loop         *)

MaxWireCalls == 4

\* locals of a running on_connect: its client and the topics still to do
ConnectFrame(client, topics) == [client |-> client, topics |-> topics]

\* on_connect up to topics = list(self.subscribed_topics[broker_key])
ResubscribeBegin(t, client, reason_code) ==
    /\ UNCHANGED appVars
    /\ pc[t] = "idle"
    /\ lastCall' = Call("on_connect", 0, EmptyMap,
                        [client |-> client, reason_code |-> reason_code])
    /\ IF ReasonValue(reason_code) = 0
       THEN \E order \in Orderings(ResubscribeTopics(subscribed_topics, client.key)) :
               /\ subscribed_topics' = TopicsRead(subscribed_topics, client.key)
               /\ IF order = <<>>
                  THEN UNCHANGED <<pc, frame>>
                  ELSE /\ pc' = [pc EXCEPT ![t] = "resubscribe"]
                       /\ frame' = [frame EXCEPT ![t] = ConnectFrame(client, order)]
       ELSE UNCHANGED <<subscribed_topics, pc, frame>>
    /\ UNCHANGED <<clients, device_topic_map, live, brokerCalls, dbVars, created>>

\* for topic in topics: result = client.subscribe(topic), one turn of the
\* loop; the result is only logged
ResubscribeStep(t, ok) ==
    /\ UNCHANGED appVars
    /\ pc[t] = "resubscribe"
    /\ Len(brokerCalls) < MaxWireCalls
    /\ brokerCalls' = Append(brokerCalls,
                             BrokerCall("subscribe", frame[t].client,
                                        frame[t].topics[1], ok))
    /\ IF Len(frame[t].topics) = 1
       THEN /\ pc' = [pc EXCEPT ![t] = "idle"]
            /\ frame' = [frame EXCEPT ![t] = NoFrame]
       ELSE /\ frame' = [frame EXCEPT ![t].topics =
                            [i \in 1..(Len(frame[t].topics) - 1) |->
                                frame[t].topics[i + 1]]]
            /\ UNCHANGED pc
    /\ lastCall' = Call("resubscribe", 0, EmptyMap, t)
    /\ UNCHANGED <<clients, subscribed_topics, device_topic_map, live, dbVars, created>>

NextResubscribe ==
    \/ \E t \in Threads, client \in live, reason_code \in ReasonCodes :
          ResubscribeBegin(t, client, reason_code)
    \/ \E t \in Threads, ok \in BOOLEAN : ResubscribeStep(t, ok)
    \/ \E d \in DeviceIds, connectOk \in BOOLEAN, subscribeOk \in BOOLEAN :
          SubscribeDevice(d, connectOk, subscribeOk)
    \/ \E d \in DeviceIds : UnsubscribeDevice(d)

SpecResubscribe == InitPoolConc /\ [][NextResubscribe]_vars

\* the calls of the log about topic on clients of broker bk that changed
\* the broker's side: accepted subscribes, and unsubscribes
C22_Wire(bk, topic) ==
    {i \in DOMAIN brokerCalls :
        /\ brokerCalls[i].client.key = bk
        /\ brokerCalls[i].topic = topic
        /\ \/ brokerCalls[i].op = "subscribe" /\ brokerCalls[i].ok
           \/ brokerCalls[i].op = "unsubscribe"}

\* the broker holds a subscription to topic: the last such call subscribed
C22_AtBroker(bk, topic) ==
    \E i \in C22_Wire(bk, topic) :
        /\ brokerCalls[i].op = "subscribe"
        /\ \A j \in C22_Wire(bk, topic) : j <= i

C22_Remembered(bk, topic) ==
    bk \in DOMAIN subscribed_topics /\ topic \in subscribed_topics[bk]

C22_Unsubscribed(bk, topic) ==
    \E i \in DOMAIN brokerCalls :
        /\ brokerCalls[i].op = "unsubscribe"
        /\ brokerCalls[i].client.key = bk
        /\ brokerCalls[i].topic = topic

\* C22: when no on_connect is under way, a topic that was unsubscribed and
\* is not in the topic set of its broker is not subscribed at the broker,
\* and every topic in the topic set of a broker is subscribed at the broker.
C22_BrokerAgreesWithBookkeeping ==
    (\A t \in Threads : pc[t] = "idle") =>
        \A bk \in {Broker1, Broker2}, topic \in Topics \cup {PatternEMAny} :
            /\ C22_Unsubscribed(bk, topic) /\ ~C22_Remembered(bk, topic)
                  => ~C22_AtBroker(bk, topic)
            /\ C22_Remembered(bk, topic) => C22_AtBroker(bk, topic)

=============================================================================
